---- MODULE Spec2Model ----
(***************************************************************************)
(* The AI-validated game contract of mohsin010/game_engine: one contract   *)
(* process per node and round (part_002, main), its AI jury module         *)
(* (part_000, AIJuryModule) and the game State files it persists.          *)
(*                                                                         *)
(* Texts (game states, daemon outputs) are sequences of tokens; a          *)
(* substring search of the code is a search for a token.  JSON messages    *)
(* are records of the fields they carry.  Confidences are in tenths.       *)
(***************************************************************************)
EXTENDS Integers, Sequences, FiniteSets, Bags, TLC

\* ------------------------------------------------------------------ bounds
NumNodes == 2       \* nodes of the UNL; peer_count = ctx->unl.count
MaxInputs == 2      \* user inputs the host hands to one round
MaxNpl == 2         \* NPL messages the other peers send to a node in one round
MaxForks == 2       \* daemon processes forked per role
MaxRounds == 2      \* consecutive rounds of the contract on the machine
NumChunks == 2      \* chunks of chunkSize bytes that make up the model file
NumThreads == 2     \* handler threads of the game daemon at work at a time
MaxPosition == 3    \* n_ctx of the persistent context, counted in llama_decode calls

Nodes == 1..NumNodes
\* The replicas whose contract process is modelled step by step under Spec; the
\* remaining UNL peers are the environment that fills the NPL channel.
LocalNodes == {NumNodes}

VARIABLES
    stateFile,        \* [node][gameId]: game_data/game_state_<id>.txt, <<>> = absent
    worldFile,        \* [node][gameId]: game_data/game_world_<id>.txt, <<>> = absent
    inputs,           \* the round's user inputs, ordered identically on every node
    pc,               \* [node]: where main() stands
    cur,              \* [node]: index into inputs of the input being handled
    juryId,           \* [node]: AIJuryModule::juryId
    activeRequests,   \* [node]: AIJuryModule::activeRequests
    handlers,         \* [node]: g_gameActionHandlers
    npl,              \* [node]: bag of NPL messages readable by hp_read_npl_msg
    replies,          \* [node]: what hp_write_user_msg has sent this round
    sent,             \* NPL messages the unmodelled peers have sent this round
    voteLog,          \* history: [node] bag of the votes processVote has tallied
    ratified,         \* history: [node][gameId] state of the last VALID resolution
    ctx,              \* hp_contract_context: readonly and unl.count of the round
    daemon,           \* [node]: what the game daemon (AIDaemon) answers to a ping
    validator,        \* [node]: what the jury's validator daemon answers to a ping
    nftFile,          \* [node][gameId]: game_data/nft_<id>.json, <<>> = absent
    signerCalls,      \* [node]: calls of the external signing service (/mint_batch)
    host              \* the node's machine: daemon processes, PID files, model file

vars == <<stateFile, worldFile, inputs, pc, cur, juryId, activeRequests, handlers,
          npl, replies, sent, voteLog, ratified, ctx, daemon, validator, nftFile,
          signerCalls, host>>

\* ------------------------------------------------------------------- texts
\* A text is a sequence of lines, a line a sequence of words; the empty text is
\* also what loading an absent file gives.
Empty == <<>>

\* The lines of the player state AIDaemon::processPlayerAction asks the model for.
HeaderNames ==
    {"Player_Location:", "Player_Health:", "Player_Score:", "Player_Inventory:",
     "Game_Status:", "Turn_Count:"}

PlayerState(location, health, score, inventory, status, turn) ==
    << <<"Player_Location:", location>>, <<"Player_Health:", health>>,
       <<"Player_Score:", score>>, <<"Player_Inventory:", inventory>>,
       <<"Game_Status:", status>>, <<"Turn_Count:", turn>> >>

S0 == PlayerState("entrance", "100", "0", "[]", "active", "0")
OutTunnel == PlayerState("tunnel", "100", "10", "[torch]", "active", "1")
OutCave == PlayerState("cave", "80", "10", "[]", "active", "1")
OutWon == PlayerState("vault", "90", "100", "[crown]", "won", "2")
OutWonAgain == PlayerState("throne", "70", "200", "[crown, sceptre]", "won", "3")
\* a player state the model cut short: three of the six lines
OutNoHeaders == << <<"Player_Location:", "tunnel">>, <<"Player_Health:", "100">>,
                   <<"Game_Status:", "active">> >>
\* a narrative answer: no markers, no player state
RawNarrative == << <<"You", "walk", "into", "the", "tunnel">> >>
\* AIServiceClient::sendRequest: {"error":"Failed to connect to AI daemon"}
OutFailed == << <<"error", "FAILED", "to", "connect">> >>
World1 == << <<"Game Title:", "cave survival">> >>

BeginMarker == <<"<<BEGIN_PLAYER_STATE>>">>
EndMarker == <<"<<END_PLAYER_STATE>>">>
Marked(text) == <<BeginMarker>> \o text \o <<EndMarker>>

\* AIDaemon::processPlayerAction, after the generation: what stands between the
\* last begin marker and the first end marker after it, else the raw response
ExtractPlayerState(ai_response) ==
    LET begins == {i \in DOMAIN ai_response : ai_response[i] = BeginMarker}
        begin_marker == IF begins = {} THEN 0
                        ELSE CHOOSE i \in begins : \A k \in begins : k <= i
        ends == {i \in DOMAIN ai_response :
                    i > begin_marker /\ ai_response[i] = EndMarker}
        end_marker == IF ends = {} THEN 0
                      ELSE CHOOSE i \in ends : \A k \in ends : i <= k
    IN IF begin_marker # 0 /\ end_marker # 0
       THEN SubSeq(ai_response, begin_marker + 1, end_marker - 1)
       ELSE ai_response

\* What the model generates for a player action "go": the daemon's text is not
\* reproducible, so every call draws any of these.
AiResponses == {Marked(OutTunnel), Marked(OutCave), Marked(Empty)}

\* What AIServiceClient::processPlayerAction can hand back for "go".
DaemonOutputs == {ExtractPlayerState(r) : r \in AiResponses} \cup {OutFailed}

\* ... and what the model generates for a player action "win"
WinResponses == {Marked(OutWon), Marked(OutWonAgain), Marked(OutNoHeaders), RawNarrative}

\* AIServiceClient::processPlayerAction: the texts a call can return
ProcessPlayerAction(playerActionText) ==
    IF playerActionText = "win"
    THEN {ExtractPlayerState(r) : r \in WinResponses}
    ELSE DaemonOutputs

GameIds == {"g1", "g9"}

\* ::tolower over the words of the model
\* std::transform(..., ::tolower) on a word of the response
ToLower(tok) == IF tok = "FAILED" THEN "failed" ELSE tok

ErrorIndicators == {"error:", "failed", "invalid", "cannot"}

\* process_game_message: the error check on the text the daemon returned
IsErrorResponse(actionResult) ==
    \/ \E i \in DOMAIN actionResult : \E j \in DOMAIN actionResult[i] :
          ToLower(actionResult[i][j]) \in ErrorIndicators
    \/ actionResult = Empty

\* std::string::find("Game_Status: won")
ContainsWon(gameState) ==
    \E i \in DOMAIN gameState : \E j \in DOMAIN gameState[i] :
        /\ j < Len(gameState[i])
        /\ gameState[i][j] = "Game_Status:"
        /\ gameState[i][j + 1] = "won"

\* GameStateManager::saveGameState: the file is overwritten; when it cannot be
\* opened for writing nothing is written and false is returned
SaveGameState(files, gameId, text) ==
    IF host.stateWritable THEN [files EXCEPT ![gameId] = text] ELSE files

\* GameStateManager::loadGameState: the content, "" when the file is absent
LoadGameState(files, gameId) == files[gameId]

\* ------------------------------------------------------------ game files
Prompts == {"cave", "castle"}
\* std::hash<std::string> of the prompt, % 100000
Hash(userPrompt) == IF userPrompt = "cave" THEN 4711 ELSE 42

GameIdText(gameNumber, hash) == "game_" \o ToString(gameNumber) \o "_" \o ToString(hash)

\* every id a file of the round can carry: the ids clients ask about and the ids
\* create_game can generate on top of the one game that exists
AllGameIds ==
    GameIds \cup {GameIdText(k, Hash(p)) : k \in 2..(MaxInputs + 1), p \in Prompts}

\* GameStateManager::listGames: the ids with a game_world_<id>.txt
ListGames(worlds) == {g \in DOMAIN worlds : worlds[g] # Empty}

\* a faulty variant: the text of the first game's world goes into the hash too
GenerateGameId_worldText(worlds, userPrompt) ==
    GameIdText(Cardinality(ListGames(worlds)) + 1,
               Hash(IF worlds["g1"] = World1 THEN userPrompt ELSE "castle"))

\* a faulty variant: the id is the hash of the prompt alone
GenerateGameId_hashOnly(worlds, userPrompt) == GameIdText(2, Hash(userPrompt))

\* GameStateManager::generateGameId
GenerateGameId(worlds, userPrompt) ==
    GameIdText(Cardinality(ListGames(worlds)) + 1, Hash(userPrompt))

\* GameStateManager::saveGameWorld: the file is overwritten
SaveGameWorld(worlds, gameId, text) == [worlds EXCEPT ![gameId] = text]

WorldHeads == {"Game Title:", "World Description:", "World Lore:", "Objectives:",
               "Win Conditions:", "Game Rules:"}
\* the words a lowercased line is searched for "current situation:", "location:"
\* or "starting status:" in ("Player_Location:" holds "location:")
StateHeads == {"Current Situation:", "Location:", "Starting Status:", "Player_Location:"}
\* ... and for "you are", "health", "inventory", "score", ... outside any section
StateWords == {"currently", "health", "inventory", "score", "Player_Health:",
               "Player_Score:", "Player_Inventory:"}

LineHas(line, words) == \E j \in DOMAIN line : ToLower(line[j]) \in words

\* what AIServiceClient::createGame can hand back for a prompt
GameCave == << <<"Game Title:", "cave survival">>, <<"Objectives:", "find", "the", "crown">>,
               <<"Current Situation:", "at", "the", "entrance">>, <<"Location:", "entrance">> >>
GameCastle == << <<"Game Title:", "castle siege">>,
                 <<"Current Situation:", "at", "the", "gate">> >>
CreateGame(userPrompt) == {GameCave, GameCastle, Empty}

DefaultStateContent ==
    << <<"Current Situation:", "You", "are", "just", "beginning", "your", "adventure.">>,
       <<"Location:", "Starting", "location">>,
       <<"Starting Status:", "You", "are", "ready", "to", "begin.">> >>

RECURSIVE SeparateLines(_, _, _, _, _)
\* GameStateManager::separateGameContent, the loop over the lines from line i on:
\* section is "world", "state" or "none"
SeparateLines(lines, i, section, worldContent, stateContent) ==
    IF i > Len(lines) THEN <<worldContent, stateContent>>
    ELSE LET line == lines[i] IN
         IF LineHas(line, WorldHeads)
         THEN SeparateLines(lines, i + 1, "world", Append(worldContent, line), stateContent)
         ELSE IF LineHas(line, StateHeads)
         THEN SeparateLines(lines, i + 1, "state", worldContent, Append(stateContent, line))
         ELSE IF section = "world"
         THEN SeparateLines(lines, i + 1, section, Append(worldContent, line), stateContent)
         ELSE IF section = "state"
         THEN SeparateLines(lines, i + 1, section, worldContent, Append(stateContent, line))
         ELSE IF line = <<>>
         THEN SeparateLines(lines, i + 1, section, worldContent, stateContent)
         ELSE IF LineHas(line, StateWords)
         THEN SeparateLines(lines, i + 1, section, worldContent, Append(stateContent, line))
         ELSE SeparateLines(lines, i + 1, section, Append(worldContent, line), stateContent)

\* GameStateManager::separateGameContent: <<world, state>>
SeparateGameContent(fullGameContent) ==
    LET parts == SeparateLines(fullGameContent, 1, "none", Empty, Empty) IN
    <<IF parts[1] = Empty THEN fullGameContent ELSE parts[1],
      IF parts[2] = Empty THEN DefaultStateContent ELSE parts[2]>>

\* ValuableItemExtractor::extractField: the rest of the line after the first
\* occurrence of the field name, <<>> when it does not occur
ExtractField(gameState, fieldName) ==
    LET hits == {p \in {<<i, j>> : i \in DOMAIN gameState, j \in 1..10} :
                    p[2] \in DOMAIN gameState[p[1]] /\ gameState[p[1]][p[2]] = fieldName}
    IN IF hits = {} THEN <<>>
       ELSE LET p == CHOOSE h \in hits :
                        \A k \in hits : h[1] < k[1] \/ (h[1] = k[1] /\ h[2] <= k[2])
            IN SubSeq(gameState[p[1]], p[2] + 1, Len(gameState[p[1]]))

\* ValuableItemExtractor::extractPlayerInventory: the JSON written to nft_<id>.json
ExtractPlayerInventory(gameId, gameState, playerAction) ==
    [game_id |-> gameId, winning_action |-> playerAction, status |-> "won",
     final_location |-> ExtractField(gameState, "Player_Location:"),
     final_health |-> ExtractField(gameState, "Player_Health:"),
     final_score |-> ExtractField(gameState, "Player_Score:"),
     player_inventory |-> ExtractField(gameState, "Player_Inventory:")]

\* NFTMintingClient::isAlreadyMinted
IsAlreadyMinted(nftData) ==
    \/ nftData.status = "minted"
    \/ ("nft_tokens" \in DOMAIN nftData /\ nftData.nft_tokens # <<>>)

\* NFTMintingClient::parseInventoryItems finds an item to mint
HasItems(nftData) == nftData.player_inventory \notin {<<>>, <<"[]">>}

\* ------------------------------------------------------------- daemons
DaemonStatuses == {"down", "loading", "ready"}
\* AIServiceClient::isDaemonRunning
IsDaemonRunning(status) == status \in {"loading", "ready"}
\* a faulty variant: a loading model passes for a ready one
IsModelReady_loading(status) == status \in {"loading", "ready"}
\* AIServiceClient::isModelReady
IsModelReady(status) == status = "ready"

\* -------------------------------------------------------------------- jury
\* a faulty variant: the node counts itself on top of the UNL
PeerCount_plusSelf == ctx.unl + 1
\* main: peer_count = ctx->unl.count, 1 when the UNL is empty
PeerCount == IF ctx.unl > 0 THEN ctx.unl ELSE 1

JuryIds == {"jury_1", "jury_2"}

\* what the validator daemon answers to a "validate" request: an error, or a
\* verdict with its confidence
ValidatorAnswers == {[error |-> TRUE, valid |-> FALSE, confidence |-> 0],
                     [error |-> FALSE, valid |-> TRUE, confidence |-> 9],
                     [error |-> FALSE, valid |-> FALSE, confidence |-> 9]}

\* a faulty variant: without a validator the vote is invalid
MakeDecision_reject(status, answer) ==
    IF status # "ready" \/ answer.error
    THEN [isValid |-> FALSE, confidence |-> 1]
    ELSE [isValid |-> answer.valid, confidence |-> answer.confidence]

\* AIModelDecisionEngine::makeDecision: the fallback (valid, 0.1) when the daemon
\* does not answer the ping, is not ready or answers with an error, else its verdict
MakeDecision(status, answer) ==
    IF status # "ready" \/ answer.error
    THEN [isValid |-> TRUE, confidence |-> 1]
    ELSE [isValid |-> answer.valid, confidence |-> answer.confidence]

\* the decisions makeDecision can return
Decisions == {MakeDecision(status, answer) : status \in DaemonStatuses,
                                             answer \in ValidatorAnswers}

\* main: action_idx = u * 1000 + input_idx
ActionIdx(u, input_idx) == u * 1000 + input_idx

RequestIds == {ActionIdx(0, i) : i \in 0..(MaxInputs - 1)}

\* Vote::toJson: a JSON object with the vote's fields
VoteToJson(vote) ==
    [parses |-> TRUE, hasRequestIdText |-> TRUE,
     fields |-> [requestId |-> vote.requestId, isValid |-> vote.isValid,
                 confidence |-> vote.confidence, juryId |-> vote.juryId]]

\* NPL messages that are no votes: a JSON object of another type, text that is
\* no JSON, and a cut-off vote (no JSON, but the text "requestId": is in it)
UnknownTypeMsg == [parses |-> TRUE, hasRequestIdText |-> FALSE, fields |-> [type |-> "hello"]]
NotJsonMsg == [parses |-> FALSE, hasRequestIdText |-> FALSE, fields |-> [raw |-> "garbage"]]
TruncatedVoteMsg == [parses |-> FALSE, hasRequestIdText |-> TRUE, fields |-> [raw |-> "cut"]]
JunkMessages == {UnknownTypeMsg, NotJsonMsg, TruncatedVoteMsg}

\* the votes of the peers that are not modelled step by step
PeerJuryId == "jury_2"
VoteMessages ==
    {VoteToJson([requestId |-> r, isValid |-> b, confidence |-> 9, juryId |-> PeerJuryId]) :
        r \in RequestIds, b \in BOOLEAN}

IsWellFormedVote(msg) ==
    msg.parses /\ {"requestId", "isValid", "confidence", "juryId"} \subseteq DOMAIN msg.fields

\* nlohmann::json::value(key, default)
JsonValue(msg, key, default) ==
    IF key \in DOMAIN msg.fields THEN msg.fields[key] ELSE default

\* Vote::fromJson: the set of votes it can return.  When the parse throws, the
\* Vote was never assigned: requestId, isValid and confidence are indeterminate.
FromJson(msg) ==
    IF msg.parses
    THEN {[requestId |-> JsonValue(msg, "requestId", 0),
           isValid |-> JsonValue(msg, "isValid", FALSE),
           confidence |-> JsonValue(msg, "confidence", 0),
           juryId |-> JsonValue(msg, "juryId", "")]}
    ELSE {[requestId |-> r, isValid |-> b, confidence |-> 0, juryId |-> ""] :
              r \in RequestIds \cup {-1}, b \in BOOLEAN}

\* AIJuryModule::findRequest: index of the first request with that id, 0 if none
FindRequest(reqs, requestId) ==
    IF \E i \in DOMAIN reqs : reqs[i].requestId = requestId
    THEN CHOOSE i \in DOMAIN reqs :
            /\ reqs[i].requestId = requestId
            /\ \A k \in DOMAIN reqs : reqs[k].requestId = requestId => i <= k
    ELSE 0

\* AIJuryModule::isConsensusReached
IsConsensusReached(reqs, requestId) ==
    LET i == FindRequest(reqs, requestId) IN
    IF i = 0 THEN FALSE ELSE reqs[i].resolved

\* processVote: state->tally[voteIndex]++
TallyAfter(tally, isValid) ==
    LET voteIndex == IF isValid THEN 1 ELSE 0 IN [tally EXCEPT ![voteIndex] = @ + 1]

\* processVote: state->confidenceSum[voteIndex] += vote.confidence
ConfidenceSumAfter(csum, isValid, confidence) ==
    LET voteIndex == IF isValid THEN 1 ELSE 0 IN [csum EXCEPT ![voteIndex] = @ + confidence]

\* a faulty variant: consensus is declared one vote early
ConsensusReady_early(received, peerCount) == received >= peerCount - 1

\* processVote: if (state->received >= peerCount)
ConsensusReady(received, peerCount) == received >= peerCount

\* a faulty variant: a tie counts as a majority
MajorityValid_tie(validVotes, invalidVotes) == validVotes >= invalidVotes

\* processVote: bool majorityValid = validVotes > invalidVotes
MajorityValid(validVotes, invalidVotes) == validVotes > invalidVotes

\* ------------------------------------------------------- the user callback
\* the handler juryUserResponse finds for a request id: its index, 0 if none
FindHandler(hs, requestId) ==
    IF \E i \in DOMAIN hs : hs[i].action_idx = requestId
    THEN CHOOSE i \in DOMAIN hs :
            /\ hs[i].action_idx = requestId
            /\ \A k \in DOMAIN hs : hs[k].action_idx = requestId => i <= k
    ELSE 0

\* juryUserResponse, the valid branch is taken
ActionSucceeds(validAction, h) == validAction /\ h.newGameState # Empty

\* a faulty variant: the invalid branch replies without re-saving the old state
RevertState_skipped(files, h) == files

\* juryUserResponse, invalid branch: the State file after the revert
RevertState(files, h) ==
    IF h.gameId # "" /\ h.oldGameState # Empty
    THEN SaveGameState(files, h.gameId, h.oldGameState)
    ELSE files

\* the reply juryUserResponse writes for a consensus payload
EnhancedReply(result, hs) ==
    LET i == FindHandler(hs, result.requestId) IN
    IF i = 0
    THEN result @@ [game_id |-> "", action_result |-> "none", game_state |-> Empty]
    ELSE IF ActionSucceeds(result.decision = "valid", hs[i])
         THEN result @@ [game_id |-> hs[i].gameId, action_result |-> "success",
                         game_state |-> hs[i].newGameState]
         ELSE result @@ [game_id |-> hs[i].gameId, action_result |-> "failed",
                         game_state |-> hs[i].oldGameState]

\* the State files after juryUserResponse has handled a consensus payload
FilesAfterResponse(files, result, hs) ==
    LET i == FindHandler(hs, result.requestId) IN
    IF i = 0 THEN files
    ELSE IF ActionSucceeds(result.decision = "valid", hs[i]) THEN files
         ELSE RevertState(files, hs[i])

\* the NFT records after juryUserResponse has handled a consensus payload: the
\* valid branch writes one when the new state holds "Game_Status: won"
NftAfterResponse(nfts, result, hs) ==
    LET i == FindHandler(hs, result.requestId) IN
    IF i # 0 /\ ActionSucceeds(result.decision = "valid", hs[i])
             /\ ContainsWon(hs[i].newGameState)
    THEN [nfts EXCEPT ![hs[i].gameId] =
             <<ExtractPlayerInventory(hs[i].gameId, hs[i].newGameState, hs[i].playerAction)>>]
    ELSE nfts

\* AIJuryModule::sendConsensusResult: the consensus payload
ConsensusResult(state, majorityValid) ==
    [requestId |-> state.requestId,
     decision |-> IF majorityValid THEN "valid" ELSE "invalid",
     validVotes |-> state.tally[1], invalidVotes |-> state.tally[0],
     totalVotes |-> state.received,
     confidenceSum |-> state.confidenceSum[0] + state.confidenceSum[1]]

\* ---------------------------------------------------------------- history
\* hp_read_npl_msg's sender: the node a message came from, 0 where the model does
\* not carry it.  The contract passes only the text on to process_jury_vote.
SenderOf(msg) == IF "sender" \in DOMAIN msg THEN msg.sender ELSE 0

LogEntry(vote, msg) ==
    [requestId |-> vote.requestId, isValid |-> vote.isValid, juryId |-> vote.juryId,
     wellFormed |-> IsWellFormedVote(msg), sender |-> SenderOf(msg)]

RatifiedAfter(rat, result, hs) ==
    LET i == FindHandler(hs, result.requestId) IN
    IF i # 0 /\ ActionSucceeds(result.decision = "valid", hs[i])
    THEN [rat EXCEPT ![hs[i].gameId] = hs[i].newGameState]
    ELSE rat

\* ------------------------------------------------------------- operations
\* AIJuryModule::processVote on node n for the parsed vote; msg is what was read
ProcessVote(n, vote, msg) ==
    LET reqs == activeRequests[n]
        i == FindRequest(reqs, vote.requestId)
    IN
    IF i = 0
    THEN UNCHANGED <<activeRequests, stateFile, replies, voteLog, ratified, nftFile>>
    ELSE
      LET counted == [reqs[i] EXCEPT
                         !.received = @ + 1,
                         !.tally = TallyAfter(@, vote.isValid),
                         !.confidenceSum = ConfidenceSumAfter(@, vote.isValid, vote.confidence)]
          result == ConsensusResult(counted, MajorityValid(counted.tally[1], counted.tally[0]))
      IN
      /\ voteLog' = [voteLog EXCEPT ![n] = @ (+) SetToBag({LogEntry(vote, msg)})]
      /\ IF ConsensusReady(counted.received, PeerCount)
         THEN /\ activeRequests' =
                    [activeRequests EXCEPT ![n][i] = [counted EXCEPT !.resolved = TRUE]]
              /\ replies' = [replies EXCEPT ![n] = Append(@, EnhancedReply(result, handlers[n]))]
              /\ stateFile' = [stateFile EXCEPT ![n] = FilesAfterResponse(@, result, handlers[n])]
              /\ ratified' = [ratified EXCEPT ![n] = RatifiedAfter(@, result, handlers[n])]
              /\ nftFile' = [nftFile EXCEPT ![n] = NftAfterResponse(@, result, handlers[n])]
         ELSE /\ activeRequests' = [activeRequests EXCEPT ![n][i] = counted]
              /\ UNCHANGED <<replies, stateFile, ratified, nftFile>>

\* a faulty variant: the vote goes out twice
Broadcast_twice(box, to, msg) ==
    [k \in Nodes |-> IF k \in to THEN box[k] (+) SetToBag({msg}) (+) SetToBag({msg}) ELSE box[k]]

\* hp_write_npl_msg: every modelled replica, the sender included, gets the message
Broadcast(box, to, msg) ==
    [k \in Nodes |-> IF k \in to THEN box[k] (+) SetToBag({msg}) ELSE box[k]]

\* the error texts of process_game_message
ErrDaemonDown == "AI Daemon not running"
ErrModelLoading == "AI model still loading, please try again in a few minutes"
ErrNoContent == "Failed to generate game content"
ErrGameNotFound == "Game not found"
ErrMintDisabled == "NFT minting is temporarily disabled - only read-only mode supported"
ErrNoNftFile == "NFT data file not found for game"
ErrSaveFailed == "Failed to save game data"
ErrUnknownAction == "Unknown action"

\* hp_write_user_msg of a reply no consensus stands behind; the fields of a
\* consensus reply are there with neutral values
DirectReply(type, error, game_id, game_state) ==
    [type |-> type, error |-> error, requestId |-> -1, decision |-> "none",
     validVotes |-> 0, invalidVotes |-> 0, totalVotes |-> 0, confidenceSum |-> 0,
     game_id |-> game_id, action_result |-> "none", game_state |-> game_state]

\* What process_game_message leaves behind on node n: the files, the replies it
\* wrote, the signer calls, and jury = <<[h, vote, state]>> when the message went
\* on to AIJuryModule::processRequest, <<>> when it returned before
Outcome(files, worlds, reply, calls, jury) ==
    [stateFile |-> files, worldFile |-> worlds, replies |-> reply, signerCalls |-> calls,
     jury |-> jury]

\* process_game_message returns with an error reply
Refused(n, error) ==
    {Outcome(stateFile[n], worldFile[n], <<DirectReply("error", error, "", Empty)>>,
             signerCalls[n], <<>>)}

\* process_game_message, action create_game
CreateGameOutcomes(n, in) ==
    {IF aiResponse # Empty
     THEN LET gameId == GenerateGameId(worldFile[n], in.text)
              parts == SeparateGameContent(aiResponse)
          IN Outcome(SaveGameState(stateFile[n], gameId, parts[2]),
                     SaveGameWorld(worldFile[n], gameId, parts[1]),
                     <<IF host.stateWritable
                       THEN DirectReply("gameCreated", "", gameId, Empty)
                       ELSE DirectReply("error", ErrSaveFailed, "", Empty)>>,
                     signerCalls[n], <<>>)
     ELSE Outcome(stateFile[n], worldFile[n],
                  <<DirectReply("error", ErrNoContent, "", Empty)>>, signerCalls[n], <<>>)
       : aiResponse \in CreateGame(in.text)}

\* process_game_message, action player_action, up to the wait for consensus:
\* load, ask the daemon, save tentatively, AIJuryModule::processRequest
PlayerActionOutcomes(n, in, action_idx) ==
    LET oldGameState == LoadGameState(stateFile[n], in.gameId)
        gameWorld == worldFile[n][in.gameId]
        missing == oldGameState = Empty \/ gameWorld = Empty
    IN
    {LET accepted == ~missing /\ actionResult # Empty /\ ~IsErrorResponse(actionResult)
         decision == MakeDecision(validator[n], answer)
         h == [action_idx |-> action_idx, gameId |-> in.gameId,
               playerAction |-> in.text,
               oldGameState |-> oldGameState,
               newGameState |-> IF accepted THEN actionResult ELSE oldGameState,
               saved |-> accepted /\ host.stateWritable]
         vote == [requestId |-> action_idx, isValid |-> decision.isValid,
                  confidence |-> decision.confidence, juryId |-> juryId[n]]
         state == [requestId |-> action_idx, resolved |-> FALSE, received |-> 0,
                   tally |-> [k \in {0, 1} |-> 0],
                   confidenceSum |-> [k \in {0, 1} |-> 0]]
     IN Outcome(IF accepted THEN SaveGameState(stateFile[n], in.gameId, actionResult)
                ELSE stateFile[n],
                worldFile[n], <<>>, signerCalls[n],
                <<[h |-> h, vote |-> vote, state |-> state]>>)
       : actionResult \in ProcessPlayerAction(in.text), answer \in ValidatorAnswers}

\* process_game_message, action get_game_state
GetGameStateOutcomes(n, in) ==
    LET gameState == LoadGameState(stateFile[n], in.gameId) IN
    IF gameState # Empty
    THEN {Outcome(stateFile[n], worldFile[n],
                  <<DirectReply("gameState", "", in.gameId, gameState)>>, signerCalls[n], <<>>)}
    ELSE Refused(n, ErrGameNotFound)

\* the nft_mint_result reply; action_result stands for its fields success and
\* already_minted
MintReply(game_id, result) ==
    [DirectReply("nft_mint_result",
                 IF result = "failed" THEN "Some NFTs failed to mint" ELSE "",
                 game_id, Empty) EXCEPT !.action_result = result]

\* isAlreadyMinted and NFTMintingClient::mintNFTsForGame: the record counts as
\* minted, or there is nothing to mint, or the signing service is called
\* (/mint_batch) and mints every item or fails
MintResults(nftData) ==
    IF IsAlreadyMinted(nftData) THEN {"already_minted"}
    ELSE IF ~HasItems(nftData) THEN {"nothing"}
    ELSE {"minted", "failed"}

\* a faulty variant: mint_nft does not look at ctx->readonly
MintNftOutcomes_anyRound(n, in) ==
    IF nftFile[n][in.gameId] = <<>> THEN Refused(n, ErrNoNftFile)
    ELSE LET nftData == nftFile[n][in.gameId][1] IN
         {Outcome(stateFile[n], worldFile[n], <<MintReply(in.gameId, r)>>,
                  IF r \in {"minted", "failed"} THEN signerCalls[n] + 1 ELSE signerCalls[n],
                  <<>>) : r \in MintResults(nftData)}

\* process_game_message, action mint_nft: the NFT record is read, never written
MintNftOutcomes(n, in) ==
    IF ~ctx.readonly THEN Refused(n, ErrMintDisabled)
    ELSE IF nftFile[n][in.gameId] = <<>> THEN Refused(n, ErrNoNftFile)
    ELSE LET nftData == nftFile[n][in.gameId][1] IN
         {Outcome(stateFile[n], worldFile[n], <<MintReply(in.gameId, r)>>,
                  IF r \in {"minted", "failed"} THEN signerCalls[n] + 1 ELSE signerCalls[n],
                  <<>>) : r \in MintResults(nftData)}

\* process_game_message: everything it can leave behind for input in
GameMessageOutcomes(n, in, action_idx) ==
    IF ~IsDaemonRunning(daemon[n]) THEN Refused(n, ErrDaemonDown)
    ELSE IF ~IsModelReady(daemon[n]) /\ in.action \in {"create_game", "player_action"}
    THEN Refused(n, ErrModelLoading)
    ELSE IF in.action = "create_game" THEN CreateGameOutcomes(n, in)
    ELSE IF in.action = "player_action" THEN PlayerActionOutcomes(n, in, action_idx)
    ELSE IF in.action = "get_game_state" THEN GetGameStateOutcomes(n, in)
    ELSE IF in.action = "mint_nft" THEN MintNftOutcomes(n, in)
    ELSE Refused(n, ErrUnknownAction)

\* main hands the next input to process_game_message, which replies at once or
\* registers the request with the jury, broadcasts the vote and starts to wait
ProcessGameMessage(n, to) ==
    /\ pc[n] = "inputs"
    /\ cur[n] <= Len(inputs)
    /\ \E out \in GameMessageOutcomes(n, inputs[cur[n]], ActionIdx(inputs[cur[n]].u, cur[n] - 1)) :
          /\ stateFile' = [stateFile EXCEPT ![n] = out.stateFile]
          /\ worldFile' = [worldFile EXCEPT ![n] = out.worldFile]
          /\ replies' = [replies EXCEPT ![n] = @ \o out.replies]
          /\ signerCalls' = [signerCalls EXCEPT ![n] = out.signerCalls]
          /\ UNCHANGED host
          /\ IF out.jury = <<>>
             THEN /\ cur' = [cur EXCEPT ![n] = @ + 1]
                  /\ UNCHANGED <<npl, activeRequests, handlers, pc>>
             ELSE /\ npl' = Broadcast(npl, to, VoteToJson(out.jury[1].vote))
                  /\ activeRequests' = [activeRequests EXCEPT ![n] = Append(@, out.jury[1].state)]
                  /\ handlers' = [handlers EXCEPT ![n] = Append(@, out.jury[1].h)]
                  /\ pc' = [pc EXCEPT ![n] = "waiting"]
                  /\ UNCHANGED cur
    /\ UNCHANGED <<inputs, juryId, sent, voteLog, ratified, ctx, daemon, validator, nftFile>>

\* waitForJuryConsensus: isConsensusReached holds, the loop is left
ConsensusReached(n) ==
    /\ pc[n] = "waiting"
    /\ IsConsensusReached(activeRequests[n], ActionIdx(inputs[cur[n]].u, cur[n] - 1))
    /\ pc' = [pc EXCEPT ![n] = "inputs"]
    /\ cur' = [cur EXCEPT ![n] = @ + 1]
    /\ UNCHANGED <<stateFile, worldFile, inputs, juryId, activeRequests, handlers, npl,
                   replies, sent, voteLog, ratified, ctx, daemon, validator, nftFile,
                   signerCalls, host>>

\* waitForJuryConsensus: one NPL message is read and handed to process_jury_vote
WaitReadNpl(n) ==
    /\ pc[n] = "waiting"
    /\ ~IsConsensusReached(activeRequests[n], ActionIdx(inputs[cur[n]].u, cur[n] - 1))
    /\ \E msg \in BagToSet(npl[n]) :
          /\ npl' = [npl EXCEPT ![n] = @ (-) SetToBag({msg})]
          /\ \E vote \in FromJson(msg) : ProcessVote(n, vote, msg)
    /\ UNCHANGED <<worldFile, inputs, pc, cur, juryId, handlers, sent, ctx, daemon,
                   validator, signerCalls, host>>

\* main, after the inputs: whether the one message read there goes to
\* process_jury_vote
MainAcceptsNpl(msg) ==
    IF msg.parses THEN "requestId" \in DOMAIN msg.fields ELSE msg.hasRequestIdText

\* main, after the inputs: hp_read_npl_msg with a 100 ms timeout returns one
\* message or none, then the process ends
MainReadNpl(n) ==
    /\ pc[n] = "inputs"
    /\ cur[n] > Len(inputs)
    /\ IF BagToSet(npl[n]) = {}
       THEN UNCHANGED <<npl, activeRequests, stateFile, replies, voteLog, ratified,
                        nftFile>>
       ELSE \E msg \in BagToSet(npl[n]) :
               /\ npl' = [npl EXCEPT ![n] = @ (-) SetToBag({msg})]
               /\ IF MainAcceptsNpl(msg)
                  THEN \E vote \in FromJson(msg) : ProcessVote(n, vote, msg)
                  ELSE UNCHANGED <<activeRequests, stateFile, replies, voteLog,
                                   ratified, nftFile>>
    /\ pc' = [pc EXCEPT ![n] = "ended"]
    /\ UNCHANGED <<worldFile, inputs, cur, juryId, handlers, sent, ctx, daemon,
                   validator, signerCalls, host>>

\* the host ends a round that is still polling in waitForJuryConsensus
HostTerminate(n) ==
    /\ pc[n] = "waiting"
    /\ ~IsConsensusReached(activeRequests[n], ActionIdx(inputs[cur[n]].u, cur[n] - 1))
    /\ pc' = [pc EXCEPT ![n] = "ended"]
    /\ UNCHANGED <<stateFile, worldFile, inputs, cur, juryId, activeRequests, handlers,
                   npl, replies, sent, voteLog, ratified, ctx, daemon, validator,
                   nftFile, signerCalls, host>>

\* a peer that is not modelled step by step sends a message over NPL: a vote of
\* its own, a vote sent again, or something that is no vote
PeerSends(n) ==
    /\ pc[n] # "ended"
    /\ sent < MaxNpl
    /\ \E msg \in VoteMessages \cup JunkMessages :
          npl' = [npl EXCEPT ![n] = @ (+) SetToBag({msg})]
    /\ sent' = sent + 1
    /\ UNCHANGED <<stateFile, worldFile, inputs, pc, cur, juryId, activeRequests,
                   handlers, replies, voteLog, ratified, ctx, daemon, validator,
                   nftFile, signerCalls, host>>

\* the inputs of a round of player actions
Inputs == [u : {0}, action : {"player_action"}, gameId : GameIds, text : {"go"}]
InputSeqs == UNION {[1..k -> Inputs] : k \in 1..MaxInputs}

\* ------------------------------------------------- daemons as processes
\* The two daemon roles of a node: the game daemon (AIDaemon, port 8765,
\* supervised by GameEngineDaemonManager) and the jury's validation daemon
\* (AIValidationDaemon, port 8766, supervised by DaemonManager).
Roles == {"game", "jury"}
\* who downloads the model: the contract's ModelDownloader and the one inside
\* the jury daemon, both onto the same file
Downloaders == {"contract", "daemon"}
Pids == 1..MaxForks

\* A daemon process is not yet forked ("none"), running (named by how far
\* AIDaemon::run has got), exited but not waited for by the contract process
\* that forked it ("zombie"), or gone from the process table.
Running == {"started", "listening", "loading", "failing", "failed", "loaded", "ready"}
ProcStates == {"none"} \cup Running \cup {"zombie", "gone"}

\* the daemon's flags model_loading, model_loaded and a non-empty model_error
ModelLoading(st) == st \in {"loading", "failing", "loaded"}
ModelLoaded(st) == st \in {"loaded", "ready"}
ModelError(st) == st \in {"failing", "failed"}
\* startServer has returned true: the socket is bound and listening
Listening(st) == st \in Running \ {"started"}

\* a faulty variant: the status the accept loop logs for a connection
PingStatus_logged(st) ==
    IF ModelLoaded(st) THEN "ready" ELSE IF ModelLoading(st) THEN "loading" ELSE "error"
\* handleRequest, type "ping": the status of the answer
PingStatus(st) ==
    IF ModelLoaded(st) THEN "ready"
    ELSE IF ~ModelLoading(st) /\ ModelError(st) THEN "error"
    ELSE "loading"

\* The model file as the sequence of its chunks: chunk k holds the bytes of
\* the k-th range of chunkSize bytes of the source. <<>> is a missing file.
Complete == [k \in 1..NumChunks |-> k]
ExpectedSize == NumChunks
FileSize(f) == Len(f)
\* calculateSHA256: no two contents met here have the same digest
CalculateSHA256(f) == <<"sha256", f>>
ExpectedHash == CalculateSHA256(Complete)

\* the game daemon's persistent inference context and its handler threads:
\* persistent_ctx (live or null, and the game whose prompt it was seeded with),
\* conversation_active, conversation_position, and where each thread stands
Threads == 1..NumThreads
NoContext == [live |-> FALSE, seed |-> ""]
AiRequests ==
    [type : {"player_action"}, game : {"g1", "g9"}, continue : BOOLEAN]
        \cup {[type |-> "reset_conversation", game |-> "", continue |-> FALSE]}
ThreadIdle ==
    [pc |-> "idle", req |-> [type |-> "reset_conversation", game |-> "", continue |-> FALSE],
     asked |-> FALSE, via |-> "none", failure |-> "none", seedUsed |-> ""]
AiIdle ==
    [ctx |-> NoContext, active |-> FALSE, position |-> 0, crashed |-> FALSE,
     threads |-> [t \in Threads |-> ThreadIdle]]

\* the machine when no daemon was ever started, the model in place
HostIdle ==
    [round |-> 1,
     binary |-> [r \in Roles |-> TRUE],
     model |-> Complete,
     modelReady |-> "none",
     gets |-> [d \in Downloaders |-> 0],
     dl |-> [pc |-> "idle", fileSize |-> 0],
     pidFile |-> [r \in Roles |-> 0],
     proc |-> [r \in Roles |-> [p \in Pids |-> "none"]],
     children |-> [r \in Roles |-> {}],
     result |-> [r \in Roles |-> "none"],
     ping |-> [r \in Roles |-> [status |-> "none", phase |-> "none"]],
     signalled |-> [r \in Roles |-> {}],
     stateWritable |-> TRUE,
     serves |-> FALSE,
     ai |-> AiIdle]

\* kill(pid, 0) == 0: the pid is in the process table, which an exited child
\* stays in until its parent waits for it or exits
IsDaemonProcessRunning(h, r, pid) ==
    pid > 0 /\ h.proc[r][pid] \in Running \cup {"zombie"}

\* the processes of a role that hold its port
Serving(h, r) == {p \in Pids : Listening(h.proc[r][p])}
\* what a client of the role's port gets for a ping
PingAnswer(h, r) ==
    IF Serving(h, r) = {} THEN "socket_unavailable"
    ELSE PingStatus(h.proc[r][CHOOSE p \in Serving(h, r) : TRUE])
\* AIServiceClient::isDaemonRunning, asked of the machine
IsDaemonRunningOnHost(h) ==
    IF PingAnswer(h, "game") \in {"loading", "ready"} THEN TRUE
    ELSE IF PingAnswer(h, "game") = "socket_unavailable" THEN h.pidFile["game"] # 0
    ELSE FALSE
\* AIModelDecisionEngine::pingAIDaemon: a TCP connect to the jury daemon's port
PingAIDaemon(h) == Serving(h, "jury") # {}

\* the pid the next fork returns
NextPid(h, r) == 1 + Cardinality({p \in Pids : h.proc[r][p] # "none"})

\* startDaemon of either supervisor: the machine after it has returned, its
\* return value in result. fate is where the forked child stands when the
\* parent's 500 ms sleep ends: still running, or already exited.
StartDaemon(h, r) ==
    LET existing == h.pidFile[r]
        stale == existing > 0 /\ ~IsDaemonProcessRunning(h, r, existing)
        h1 == IF stale THEN [h EXCEPT !.pidFile[r] = 0] ELSE h
        pid == NextPid(h, r)
        Returned(hh, ok) == [hh EXCEPT !.result[r] = IF ok THEN "true" ELSE "false"]
        Forked(fate) == [h1 EXCEPT !.proc[r][pid] = fate,
                                   !.children[r] = @ \cup {pid},
                                   !.pidFile[r] = pid]
    IN  IF ~h.binary[r] THEN {Returned(h, FALSE)}
        ELSE IF r = "game" /\ h.model = <<>> THEN {Returned(h, FALSE)}
        ELSE IF existing > 0 /\ ~stale THEN {Returned(h, TRUE)}
        ELSE IF r = "game" /\ IsDaemonRunningOnHost(h1) THEN {Returned(h1, TRUE)}
        ELSE IF pid > MaxForks THEN {}
        ELSE {Returned(h1, FALSE)} \cup
             {IF IsDaemonProcessRunning(Forked(fate), r, pid)
              THEN Returned(Forked(fate), TRUE)
              ELSE Returned([Forked(fate) EXCEPT !.pidFile[r] = 0], FALSE) :
                 fate \in {"started", "zombie"}}

Quiet ==
    UNCHANGED <<stateFile, worldFile, inputs, pc, cur, juryId, activeRequests, handlers,
                npl, replies, sent, voteLog, ratified, ctx, daemon, validator, nftFile,
                signerCalls>>

\* main, not read-only and the model complete: the game daemon is started
GameStartDaemon ==
    /\ host.result["game"] = "none"
    /\ host' \in StartDaemon(host, "game")
    /\ Quiet

\* AIModelDecisionEngine::loadModel up to its wait for readiness: the jury
\* daemon is started when nothing answers on its port
JuryLoadModel ==
    /\ host.result["jury"] = "none"
    /\ IF PingAIDaemon(host)
       THEN host' = [host EXCEPT !.result["jury"] = "skipped"]
       ELSE host' \in StartDaemon(host, "jury")
    /\ Quiet

\* where a running daemon can get to next: run binds and listens (which
\* fails while another process holds the port, and the daemon then exits),
\* the loading thread sets model_loading, then model_loaded or model_error,
\* then clears model_loading
Exited(h, r, p) == IF p \in h.children[r] THEN "zombie" ELSE "gone"
StepsFrom(h, r, p) ==
    LET st == h.proc[r][p]
    IN  IF st = "started"
        THEN IF Serving(h, r) = {} THEN {"listening", Exited(h, r, p)} ELSE {Exited(h, r, p)}
        ELSE IF st = "listening" THEN {"loading"}
        ELSE IF st = "loading" THEN {"loaded", "failing"}
        ELSE IF st = "loaded" THEN {"ready"}
        ELSE IF st = "failing" THEN {"failed"}
        ELSE {}

\* startServer writes the daemon's pid to its PID file before it creates the
\* socket; a daemon whose startServer fails returns from run and its destructor
\* unlinks the file.  The game daemon's file is the one its supervisor keeps;
\* the jury daemon's "./ai_jury_daemon.pid" is a file nobody reads.
PidFileAfterRun(h, r, p, nxt) ==
    IF r = "game" /\ h.proc[r][p] = "started"
    THEN IF nxt = "listening" THEN p ELSE 0
    ELSE h.pidFile[r]

DaemonStep(r, p) ==
    /\ \E nxt \in StepsFrom(host, r, p) :
          host' = [host EXCEPT !.proc[r][p] = nxt,
                               !.pidFile[r] = PidFileAfterRun(host, r, p, nxt)]
    /\ Quiet

\* a running daemon crashes or is killed from outside
DaemonExit(r, p) ==
    /\ host.proc[r][p] \in Running
    /\ host' = [host EXCEPT !.proc[r][p] = Exited(host, r, p)]
    /\ Quiet

\* a client pings the role's port; the answer is kept with the state the
\* daemon answered it in
Ping(r) ==
    /\ host' = [host EXCEPT !.ping[r] =
                  [status |-> PingAnswer(host, r),
                   phase |-> IF Serving(host, r) = {} THEN "none"
                             ELSE host.proc[r][CHOOSE p \in Serving(host, r) : TRUE]]]
    /\ Quiet

\* the contract process exits at the end of the round: its exited children
\* are reaped, its running ones live on; the next round begins
ContractExit ==
    /\ host.result["jury"] # "none" \/ host.modelReady # "none"
    /\ host.round < MaxRounds
    /\ host' = [host EXCEPT !.round = @ + 1,
                            !.children = [r \in Roles |-> {}],
                            !.result = [r \in Roles |-> "none"],
                            !.modelReady = "none",
                            !.proc = [r \in Roles |-> [p \in Pids |->
                                        IF host.proc[r][p] = "zombie" THEN "gone"
                                        ELSE host.proc[r][p]]]]
    /\ Quiet

\* the same exit of the contract process when the rounds are not counted
ContractExitUncounted ==
    /\ host.modelReady # "none"
    /\ host' = [host EXCEPT !.children = [r \in Roles |-> {}],
                            !.result = [r \in Roles |-> "none"],
                            !.modelReady = "none",
                            !.proc = [r \in Roles |-> [p \in Pids |->
                                        IF host.proc[r][p] = "zombie" THEN "gone"
                                        ELSE host.proc[r][p]]]]
    /\ Quiet

\* a signal sent to a pid: the process, if running, ends
Killed(h, r, pid) ==
    [h EXCEPT !.proc[r][pid] = IF @ \in Running THEN Exited(h, r, pid) ELSE @,
              !.signalled[r] = @ \cup {[pid |-> pid, live |-> h.proc[r][pid] \in Running]}]

\* DaemonManager::cleanupUnresponsiveDaemon
JuryCleanupUnresponsiveDaemon(pid) ==
    /\ host.proc["jury"][pid] # "none"
    /\ host' = [(IF host.proc["jury"][pid] \in Running \cup {"zombie"}
                 THEN Killed(host, "jury", pid) ELSE host)
                EXCEPT !.pidFile["jury"] = 0]
    /\ Quiet

\* GameEngineDaemonManager::cleanupUnresponsiveDaemon
GameCleanupUnresponsiveDaemon(pid) ==
    /\ host.proc["game"][pid] # "none"
    /\ IF IsDaemonProcessRunning(host, "game", pid)
       THEN UNCHANGED host
       ELSE host' = [host EXCEPT !.pidFile["game"] = 0,
                                 !.signalled["game"] = @ \cup {[pid |-> pid, live |-> FALSE]}]
    /\ Quiet

\* ------------------------------------------- the game daemon's inference
\* AIDaemon::cleanupPersistentContext
CleanupPersistentContext(ai) ==
    [ai EXCEPT !.ctx = NoContext, !.active = FALSE, !.position = 0]

\* handleClient answers and closes the connection
Replied(th, via) == [th EXCEPT !.pc = "replied", !.via = via]

\* llama_decode on the persistent context: it cannot succeed once n_ctx
\* positions are taken, and it may fail at any time
DecodeResults(ai) == IF ai.position < MaxPosition THEN BOOLEAN ELSE {FALSE}

\* What a use of persistent_ctx and persistent_sampler brings after another
\* thread has freed them: the daemon crashes, or the call returns as if it had
\* failed or succeeded.
FreedOutcomes == {"crash", "fails", "succeeds"}

\* run: a connection is accepted and handleClient is started on a detached
\* thread, which receives the request
Accept(t) ==
    /\ ~host.ai.crashed
    /\ host.ai.threads[t].pc \in {"idle", "replied"}
    /\ \E req \in AiRequests :
          host' = [host EXCEPT !.ai.threads[t] =
                     [ThreadIdle EXCEPT !.pc = "start", !.req = req, !.asked = req.continue]]
    /\ Quiet

\* handleRequest, type reset_conversation
ResetConversation(t) ==
    /\ ~host.ai.crashed
    /\ host.ai.threads[t].pc = "start"
    /\ host.ai.threads[t].req.type = "reset_conversation"
    /\ host' = [host EXCEPT !.ai = [CleanupPersistentContext(host.ai) EXCEPT
                                       !.threads[t] = Replied(@, "none")]]
    /\ Quiet

\* processPlayerAction, initial mode: generateResponse on a context of its
\* own; then, when no conversation is active, initializePersistentContext
\* (which may fail) makes a new persistent context at position 0
InitialMode(t) ==
    /\ ~host.ai.crashed
    /\ host.ai.threads[t].pc = "start"
    /\ host.ai.threads[t].req.type = "player_action"
    /\ ~host.ai.threads[t].req.continue
    /\ \E created \in BOOLEAN :
          host' = [host EXCEPT !.ai =
                     IF host.ai.active \/ ~created
                     THEN [host.ai EXCEPT !.threads[t] = Replied(@, "initial")]
                     ELSE [host.ai EXCEPT !.ctx = [live |-> TRUE, seed |-> ""],
                                          !.position = 0,
                                          !.threads[t].pc = "seeding"]]
    /\ Quiet

\* processPlayerAction, initial mode: the full prompt of the request is decoded
\* into the persistent context; on failure the context is cleaned up
Seed(t) ==
    /\ ~host.ai.crashed
    /\ host.ai.threads[t].pc = "seeding"
    /\ LET th == host.ai.threads[t]
           seeded(ai) == [ai EXCEPT !.ctx = [live |-> ai.ctx.live, seed |-> th.req.game],
                                    !.position = 1, !.active = TRUE,
                                    !.threads[t] = Replied(@, "initial")]
           failed(ai) == [CleanupPersistentContext(ai) EXCEPT
                             !.threads[t] = Replied(@, "initial")]
       IN IF host.ai.ctx.live
          THEN \E ok \in BOOLEAN :
                  host' = [host EXCEPT !.ai = IF ok THEN seeded(host.ai) ELSE failed(host.ai)]
          ELSE \E o \in FreedOutcomes :
                  host' = [host EXCEPT !.ai =
                             IF o = "crash" THEN [host.ai EXCEPT !.crashed = TRUE]
                             ELSE IF o = "succeeds" THEN seeded(host.ai)
                             ELSE failed(host.ai)]
    /\ Quiet

\* processPlayerAction, continuation mode, up to the decode of the continuation
\* prompt in generateResponseContinue.  An error return (no persistent
\* context, or the decode failed) is answered by cleanupPersistentContext and
\* the recursive call with continue_conversation = false.
ContinueMode(t) ==
    /\ ~host.ai.crashed
    /\ host.ai.threads[t].pc = "start"
    /\ host.ai.threads[t].req.type = "player_action"
    /\ host.ai.threads[t].req.continue
    /\ LET fallback(why) ==
               [CleanupPersistentContext(host.ai) EXCEPT
                   !.threads[t].req.continue = FALSE, !.threads[t].failure = why]
       IN IF ~host.ai.ctx.live
          THEN host' = [host EXCEPT !.ai = fallback("absent")]
          ELSE \E ok \in DecodeResults(host.ai) :
                  host' = [host EXCEPT !.ai =
                             IF ok
                             THEN [host.ai EXCEPT !.position = @ + 1,
                                                  !.threads[t].pc = "generating",
                                                  !.threads[t].seedUsed = host.ai.ctx.seed]
                             ELSE fallback("prompt")]
    /\ Quiet

\* generateResponseContinue, the token loop: tokens are sampled from and
\* decoded into the persistent context; a failed decode leaves the loop, and
\* what was generated so far is returned
Generate(t) ==
    /\ ~host.ai.crashed
    /\ host.ai.threads[t].pc = "generating"
    /\ LET done(ai) == [ai EXCEPT !.position = IF @ < MaxPosition THEN @ + 1 ELSE @,
                                  !.threads[t] = Replied(@, "continuation")]
           broke(ai) == [ai EXCEPT !.threads[t] =
                            [Replied(@, "continuation") EXCEPT !.failure = "generation"]]
       IN IF host.ai.ctx.live
          THEN \E ok \in DecodeResults(host.ai) :
                  host' = [host EXCEPT !.ai = IF ok THEN done(host.ai) ELSE broke(host.ai)]
          ELSE \E o \in FreedOutcomes :
                  host' = [host EXCEPT !.ai =
                             IF o = "crash" THEN [host.ai EXCEPT !.crashed = TRUE]
                             ELSE IF o = "succeeds" THEN done(host.ai)
                             ELSE broke(host.ai)]
    /\ Quiet

\* --------------------------------------------------- the model provisioner
\* What a GET of the range that starts at chunk boundary start brings: no
\* usable response, the chunk asked for (206), or the whole file (200).  While
\* host.serves holds, the server answers every GET with the range asked for.
Responses(start) ==
    IF host.serves
    THEN {[ok |-> TRUE, body |-> <<start + 1>>]}
    ELSE {[ok |-> FALSE, body |-> <<>>],
          [ok |-> TRUE, body |-> <<start + 1>>],
          [ok |-> TRUE, body |-> Complete]}

\* ModelDownloader::verifyHashAndSetPath (contract): a mismatching file is removed
VerifyHashAndSetPath(f) ==
    IF CalculateSHA256(f) = ExpectedHash
    THEN [ok |-> TRUE, file |-> f, gets |-> 1]
    ELSE [ok |-> FALSE, file |-> <<>>, gets |-> 1]

\* ModelDownloader::checkAndDownloadModel (contract): what it returns, the
\* file it leaves and the GETs it issued
CheckAndDownloadModel(f) ==
    IF FileSize(f) < ExpectedSize
    THEN {IF ~resp.ok THEN [ok |-> FALSE, file |-> f, gets |-> 1]
          ELSE IF FileSize(f \o resp.body) >= ExpectedSize
               THEN VerifyHashAndSetPath(f \o resp.body)
               ELSE [ok |-> FALSE, file |-> f \o resp.body, gets |-> 1] :
             resp \in Responses(FileSize(f))}
    ELSE {[ok |-> FALSE, file |-> f, gets |-> 0]}

\* ModelDownloader::ensureModelDownloaded (contract)
EnsureModelDownloaded(f) ==
    IF FileSize(f) = ExpectedSize
    THEN {[ok |-> TRUE, file |-> f, gets |-> 0]}
    ELSE CheckAndDownloadModel(f)

\* main, not read-only: the provisioner is run once, and the game daemon is
\* started when it reports the model ready
MainProvision ==
    /\ host.modelReady = "none"
    /\ \E out \in EnsureModelDownloaded(host.model) :
          LET h1 == [host EXCEPT !.model = out.file,
                                 !.gets["contract"] = out.gets,
                                 !.modelReady = IF out.ok THEN "true" ELSE "false"]
          IN  IF out.ok THEN host' \in StartDaemon(h1, "game") ELSE host' = h1
    /\ Quiet

\* ModelDownloader::ensureModelDownloaded (jury daemon), up to its call of
\* downloadCompleteModel
DlEnsureModelDownloaded ==
    /\ host.dl.pc = "idle"
    /\ IF FileSize(host.model) = ExpectedSize
       THEN IF CalculateSHA256(host.model) = ExpectedHash
            THEN host' = [host EXCEPT !.dl = [pc |-> "done", fileSize |-> ExpectedSize],
                                      !.gets["daemon"] = 0]
            ELSE host' = [host EXCEPT !.dl = [pc |-> "loop", fileSize |-> 0],
                                      !.model = <<>>,
                                      !.gets["daemon"] = 0]
       ELSE host' = [host EXCEPT !.dl = [pc |-> "loop", fileSize |-> FileSize(host.model)],
                                 !.gets["daemon"] = 0]
    /\ Quiet

\* downloadCompleteModel (jury daemon), loop body: downloadChunk sends the GET
DlGet ==
    /\ host.dl.pc = "loop"
    /\ host.dl.fileSize < ExpectedSize
    /\ host' = [host EXCEPT !.dl.pc = "get", !.gets["daemon"] = @ + 1]
    /\ Quiet

\* downloadChunk appends the body it got; the loop reads the file size again
DlAppend ==
    /\ host.dl.pc = "get"
    /\ \E resp \in Responses(host.dl.fileSize) :
          IF resp.ok
          THEN host' = [host EXCEPT !.model = @ \o resp.body,
                                    !.dl = [pc |-> "loop",
                                            fileSize |-> FileSize(host.model \o resp.body)]]
          ELSE host' = [host EXCEPT !.dl.pc = "failed"]
    /\ Quiet

\* downloadCompleteModel (jury daemon), after the loop: the hash is verified
DlVerify ==
    /\ host.dl.pc = "loop"
    /\ host.dl.fileSize >= ExpectedSize
    /\ IF CalculateSHA256(host.model) = ExpectedHash
       THEN host' = [host EXCEPT !.dl.pc = "done"]
       ELSE host' = [host EXCEPT !.dl.pc = "failed", !.model = <<>>]
    /\ Quiet

\* --------------------------------------------------------- specifications
\* The State files when the round begins: a game g1 exists, in its creation
\* state on every node; g9 does not.
RoundStartFiles == [g \in AllGameIds |-> IF g = "g1" THEN S0 ELSE Empty]

InitFiles ==
    /\ stateFile = [n \in Nodes |-> RoundStartFiles]
    /\ worldFile = [n \in Nodes |-> [g \in AllGameIds |-> IF g = "g1" THEN World1 ELSE Empty]]
    /\ ratified = stateFile
    /\ nftFile = [n \in Nodes |-> [g \in AllGameIds |-> <<>>]]
    /\ signerCalls = [n \in Nodes |-> 0]
    /\ host = HostIdle

\* main before the first input: the jury is created, nothing is in flight
InitJury(on) ==
    /\ juryId \in [Nodes -> JuryIds]
    /\ \A n \in Nodes \ on : juryId[n] = "jury_1"
    /\ pc = [n \in Nodes |-> IF n \in on THEN "inputs" ELSE "ended"]
    /\ cur = [n \in Nodes |-> 1]
    /\ activeRequests = [n \in Nodes |-> <<>>]
    /\ handlers = [n \in Nodes |-> <<>>]
    /\ npl = [n \in Nodes |-> EmptyBag]
    /\ replies = [n \in Nodes |-> <<>>]
    /\ sent = 0
    /\ voteLog = [n \in Nodes |-> EmptyBag]

\* a consensus round of the whole UNL, every daemon up and ready
InitDaemons ==
    /\ ctx = [readonly |-> FALSE, unl |-> NumNodes]
    /\ daemon = [n \in Nodes |-> "ready"]
    /\ validator = [n \in Nodes |-> "ready"]

InitRound(on) == inputs \in InputSeqs /\ InitJury(on)

Init == InitFiles /\ InitRound(LocalNodes) /\ InitDaemons

Next ==
    \/ \E n \in LocalNodes : ProcessGameMessage(n, LocalNodes)
    \/ \E n \in LocalNodes : ConsensusReached(n)
    \/ \E n \in LocalNodes : WaitReadNpl(n)
    \/ \E n \in LocalNodes : MainReadNpl(n)
    \/ \E n \in LocalNodes : HostTerminate(n)
    \/ \E n \in LocalNodes : PeerSends(n)

\* One replica in full; its peers are the environment.
Spec == Init /\ [][Next]_vars

\* a round with one user input
InitNet == InitFiles /\ InitRound(Nodes) /\ InitDaemons /\ Len(inputs) = 1

NextNet ==
    \/ \E n \in Nodes : ProcessGameMessage(n, Nodes)
    \/ \E n \in Nodes : ConsensusReached(n)
    \/ \E n \in Nodes : WaitReadNpl(n)
    \/ \E n \in Nodes : MainReadNpl(n)
    \/ \E n \in Nodes : HostTerminate(n)

\* Every node of the UNL in full, all honest: each NPL message is a vote one of
\* them broadcast, delivered once.
SpecNet == InitNet /\ [][NextNet]_vars

\* the messages a user can send about game g1 or to make a new game
SoloInputs ==
    {[u |-> 0, action |-> "create_game", gameId |-> "", text |-> "cave"],
     [u |-> 0, action |-> "create_game", gameId |-> "", text |-> "castle"],
     [u |-> 0, action |-> "player_action", gameId |-> "g1", text |-> "go"],
     [u |-> 0, action |-> "player_action", gameId |-> "g1", text |-> "win"],
     [u |-> 0, action |-> "get_game_state", gameId |-> "g1", text |-> "g1"],
     [u |-> 0, action |-> "mint_nft", gameId |-> "g1", text |-> "g1"]}
SoloInputSeqs == UNION {[1..k -> SoloInputs] : k \in 1..MaxInputs}

\* the files of a game that was won in an earlier round
WonFiles == [g \in AllGameIds |-> IF g = "g1" THEN OutWon ELSE Empty]
WonNfts == [g \in AllGameIds |->
               IF g = "g1" THEN <<ExtractPlayerInventory("g1", OutWon, "win")>> ELSE <<>>]

\* game g1 is either in its creation state or was won in an earlier round
InitSoloFiles ==
    /\ \/ /\ stateFile = [n \in Nodes |-> RoundStartFiles]
          /\ nftFile = [n \in Nodes |-> [g \in AllGameIds |-> <<>>]]
       \/ /\ stateFile = [n \in Nodes |-> WonFiles]
          /\ nftFile = [n \in Nodes |-> WonNfts]
    /\ worldFile = [n \in Nodes |-> [g \in AllGameIds |-> IF g = "g1" THEN World1 ELSE Empty]]
    /\ ratified = stateFile
    /\ signerCalls = [n \in Nodes |-> 0]
    /\ host = HostIdle

\* a UNL of this node alone; the round is read-only or not, each daemon is
\* down, loading or ready for the whole round
InitSolo ==
    /\ InitSoloFiles
    /\ inputs \in SoloInputSeqs
    /\ InitJury(LocalNodes)
    /\ ctx \in [readonly : BOOLEAN, unl : {1}]
    /\ \E d \in DaemonStatuses : daemon = [n \in Nodes |-> d]
    /\ \E v \in DaemonStatuses : validator = [n \in Nodes |-> v]

NextSolo ==
    \/ \E n \in LocalNodes : ProcessGameMessage(n, LocalNodes)
    \/ \E n \in LocalNodes : ConsensusReached(n)
    \/ \E n \in LocalNodes : WaitReadNpl(n)
    \/ \E n \in LocalNodes : MainReadNpl(n)
    \/ \E n \in LocalNodes : HostTerminate(n)

\* A node that is its whole UNL, with every kind of user message.
SpecSolo == InitSolo /\ [][NextSolo]_vars

WinInputs == {[u |-> 0, action |-> "player_action", gameId |-> "g1", text |-> "win"]}
WinInputSeqs == UNION {[1..k -> WinInputs] : k \in 1..MaxInputs}

\* no UNL information (peer_count falls back to 1) while peers do send votes
InitLate ==
    /\ InitFiles
    /\ inputs \in WinInputSeqs
    /\ InitJury(LocalNodes)
    /\ ctx = [readonly |-> FALSE, unl |-> 0]
    /\ daemon = [n \in Nodes |-> "ready"]
    /\ validator = [n \in Nodes |-> "ready"]

\* One replica whose peer_count is 1, winning moves, peers as the environment.
SpecLate == InitLate /\ [][Next]_vars

\* AIJuryModule::waitForConsensus, the jury module's own wait (timeoutMs 5000 by
\* default): it reads no NPL message, so nothing is counted while it sleeps, and
\* it returns when the request is resolved or unknown and else when the time is up
WaitForConsensus(n) ==
    /\ pc[n] = "waiting"
    /\ pc' = [pc EXCEPT ![n] = "inputs"]
    /\ cur' = [cur EXCEPT ![n] = @ + 1]
    /\ UNCHANGED <<stateFile, worldFile, inputs, juryId, activeRequests, handlers, npl,
                   replies, sent, voteLog, ratified, ctx, daemon, validator, nftFile,
                   signerCalls, host>>

NextJury ==
    \/ NextSolo
    \/ \E n \in LocalNodes : WaitForConsensus(n)

\* The node of SpecSolo with a caller that may also wait through the jury
\* module's waitForConsensus.
SpecJury == InitSolo /\ [][NextJury]_vars

\* The machine of one node over consecutive rounds: the supervisors start the
\* daemons, the daemons run, crash and answer pings. No input is handled.
InitQuiet ==
    /\ stateFile = [n \in Nodes |-> RoundStartFiles]
    /\ worldFile = [n \in Nodes |-> [g \in AllGameIds |-> IF g = "g1" THEN World1 ELSE Empty]]
    /\ ratified = stateFile
    /\ nftFile = [n \in Nodes |-> [g \in AllGameIds |-> <<>>]]
    /\ signerCalls = [n \in Nodes |-> 0]
    /\ inputs = <<>>
    /\ InitJury(LocalNodes)
    /\ juryId = [n \in Nodes |-> "jury_1"]
    /\ InitDaemons

InitSup ==
    /\ InitQuiet
    /\ \E b \in [Roles -> BOOLEAN], m \in {<<>>, Complete} :
          host = [HostIdle EXCEPT !.binary = b, !.model = m]

NextSup ==
    \/ GameStartDaemon
    \/ JuryLoadModel
    \/ \E r \in Roles, p \in Pids : DaemonStep(r, p)
    \/ \E r \in Roles, p \in Pids : DaemonExit(r, p)
    \/ \E r \in Roles : Ping(r)
    \/ ContractExit

SpecSup == InitSup /\ [][NextSup]_vars

\* The same machine when the supervisors' cleanup of an unresponsive daemon
\* is called as well.
NextCleanup ==
    \/ NextSup
    \/ \E p \in Pids : JuryCleanupUnresponsiveDaemon(p)
    \/ \E p \in Pids : GameCleanupUnresponsiveDaemon(p)

SpecCleanup == InitSup /\ [][NextCleanup]_vars


\* The machine of one node over consecutive rounds while the model is
\* provisioned: main runs the contract's downloader once a round, the jury
\* daemon runs its own on the same file.
InitProv ==
    /\ InitQuiet
    /\ \E m \in {<<>>, Complete} : host = [HostIdle EXCEPT !.model = m]

NextProv ==
    \/ MainProvision
    \/ ContractExit
    \/ DlEnsureModelDownloaded
    \/ DlGet
    \/ DlAppend
    \/ DlVerify

SpecProv == InitProv /\ [][NextProv]_vars

\* The contract's provisioner alone, round after round without end, on a model
\* file that earlier attempts left behind, while the server answers every GET
\* with the range asked for.  What is left behind is a prefix of the model, or
\* such a prefix with the first chunk appended once more (the body of a GET
\* that the jury daemon's downloader sent when the file was empty).
LeftOverFiles ==
    {SubSeq(Complete, 1, k) : k \in 0..NumChunks} \cup
    {SubSeq(Complete, 1, k) \o <<1>> : k \in 1..NumChunks}

InitRounds ==
    /\ InitQuiet
    /\ \E b \in BOOLEAN, m \in LeftOverFiles :
          host = [HostIdle EXCEPT !.binary["game"] = b, !.model = m, !.serves = TRUE]

NextRounds ==
    \/ MainProvision
    \/ ContractExitUncounted
    \/ \E r \in Roles, p \in Pids : DaemonStep(r, p)
    \/ \E r \in Roles, p \in Pids : DaemonExit(r, p)

\* HotPocket starts the contract anew every round
SpecRounds == InitRounds /\ [][NextRounds]_vars /\ WF_vars(MainProvision) /\ WF_vars(ContractExitUncounted)

\* Two replicas handle the same create_game message. Their game_data
\* directories hold one or two games; the world of the first game, which no
\* consensus ever compared, is not the same text everywhere.
WorldCastle == << <<"Game Title:", "castle siege">> >>
IdWorlds ==
    {[g \in AllGameIds |-> IF g = "g1" THEN w ELSE IF g = "g9" THEN x ELSE Empty] :
        w \in {World1, WorldCastle}, x \in {Empty, World1}}
IdInputs == [u : {0, 1}, action : {"create_game"}, gameId : {""}, text : Prompts]

InitIds ==
    /\ stateFile = [n \in Nodes |-> RoundStartFiles]
    /\ worldFile \in [Nodes -> IdWorlds]
    /\ ratified = stateFile
    /\ nftFile = [n \in Nodes |-> [g \in AllGameIds |-> <<>>]]
    /\ signerCalls = [n \in Nodes |-> 0]
    /\ host = HostIdle
    /\ inputs \in [1..1 -> IdInputs]
    /\ InitJury(Nodes)
    /\ juryId = [n \in Nodes |-> "jury_1"]
    /\ InitDaemons

NextIds == \E n \in Nodes : ProcessGameMessage(n, Nodes)

SpecIds == InitIds /\ [][NextIds]_vars

\* Every node of the UNL in full over a round of MaxInputs player actions on
\* one game; no validator daemon is up, so every vote is the fallback vote.
\* The host lets the round last as long as the nodes need, and every contract
\* process keeps running: its loops sleep and poll, they do not block.
InitEarly ==
    /\ InitFiles
    /\ inputs = [i \in 1..MaxInputs |->
                   [u |-> 0, action |-> "player_action", gameId |-> "g1", text |-> "go"]]
    /\ InitJury(Nodes)
    /\ juryId = [n \in Nodes |-> IF n = 1 THEN "jury_1" ELSE "jury_2"]
    /\ ctx = [readonly |-> FALSE, unl |-> NumNodes]
    /\ daemon = [n \in Nodes |-> "ready"]
    /\ validator = [n \in Nodes |-> "down"]

NextEarly ==
    \/ \E n \in Nodes : ProcessGameMessage(n, Nodes)
    \/ \E n \in Nodes : ConsensusReached(n)
    \/ \E n \in Nodes : WaitReadNpl(n)
    \/ \E n \in Nodes : MainReadNpl(n)

SpecEarly == InitEarly /\ [][NextEarly]_vars /\ WF_vars(NextEarly)

\* NPL delivers a message that waits on node n's channel a second time
NplDuplicates(n) ==
    /\ pc[n] # "ended"
    /\ sent < MaxNpl
    /\ \E msg \in BagToSet(npl[n]) : npl' = [npl EXCEPT ![n] = @ (+) SetToBag({msg})]
    /\ sent' = sent + 1
    /\ UNCHANGED <<stateFile, worldFile, inputs, pc, cur, juryId, activeRequests,
                   handlers, replies, voteLog, ratified, ctx, daemon, validator,
                   nftFile, signerCalls, host>>

NextDup ==
    \/ NextNet
    \/ \E n \in Nodes : NplDuplicates(n)

\* Every node of the UNL in full, all honest: every node gets every vote, in
\* any order, some of them more than once.
SpecDup == InitNet /\ [][NextDup]_vars

\* generateJuryId draws "jury_" and six random digits: a node that runs other
\* code can put any juryId in a vote
SybilJuryIds == {"jury_2", "jury_3"}

\* the votes one peer node can send for the requests of the round; NPL stamps
\* each message with the key of the node that sent it
SybilVotes(p) ==
    {VoteToJson([requestId |-> r, isValid |-> b, confidence |-> 9, juryId |-> j])
        @@ [sender |-> p] : r \in RequestIds, b \in BOOLEAN, j \in SybilJuryIds}

\* peer p, which runs other code than the contract, sends node n one more vote
SybilSends(p, n) ==
    /\ pc[n] # "ended"
    /\ sent < MaxNpl
    /\ \E msg \in SybilVotes(p) : npl' = [npl EXCEPT ![n] = @ (+) SetToBag({msg})]
    /\ sent' = sent + 1
    /\ UNCHANGED <<stateFile, worldFile, inputs, pc, cur, juryId, activeRequests,
                   handlers, replies, voteLog, ratified, ctx, daemon, validator,
                   nftFile, signerCalls, host>>

InitSybil == InitFiles /\ InitRound(LocalNodes) /\ InitDaemons /\ Len(inputs) = 1

NextSybil ==
    \/ \E n \in LocalNodes : ProcessGameMessage(n, LocalNodes)
    \/ \E n \in LocalNodes : ConsensusReached(n)
    \/ \E n \in LocalNodes : WaitReadNpl(n)
    \/ \E n \in LocalNodes : MainReadNpl(n)
    \/ \E n \in LocalNodes : \E p \in Nodes \ LocalNodes : SybilSends(p, n)

\* One replica in full over a round of one input; each of its peers may send
\* votes of its own making.
SpecSybil == InitSybil /\ [][NextSybil]_vars

\* a round of MaxInputs player actions on one game; the validator daemon of
\* node 1 is up, the other nodes cast the fallback vote
InitRedeliver ==
    /\ InitFiles
    /\ inputs = [i \in 1..MaxInputs |->
                   [u |-> 0, action |-> "player_action", gameId |-> "g1", text |-> "go"]]
    /\ InitJury(Nodes)
    /\ juryId = [n \in Nodes |-> IF n = 1 THEN "jury_1" ELSE "jury_2"]
    /\ ctx = [readonly |-> FALSE, unl |-> NumNodes]
    /\ daemon = [n \in Nodes |-> "ready"]
    /\ validator = [n \in Nodes |-> IF n = 1 THEN "ready" ELSE "down"]

NextRedeliver ==
    \/ \E n \in Nodes : ProcessGameMessage(n, Nodes)
    \/ \E n \in LocalNodes : ConsensusReached(n)
    \/ \E n \in LocalNodes : WaitReadNpl(n)
    \/ \E n \in LocalNodes : MainReadNpl(n)
    \/ \E n \in LocalNodes : NplDuplicates(n)

\* All nodes honest over a round of several actions.  The last node is followed
\* in full; the others are slow: they get as far as broadcasting their vote on
\* the first action.  NPL delivers some votes to the last node more than once.
SpecRedeliver == InitRedeliver /\ [][NextRedeliver]_vars

\* a round of player actions on game g1; the State files may not be open to
\* writing (host.stateWritable)
InitUnwritable ==
    /\ stateFile = [n \in Nodes |-> RoundStartFiles]
    /\ worldFile = [n \in Nodes |-> [g \in AllGameIds |-> IF g = "g1" THEN World1 ELSE Empty]]
    /\ ratified = stateFile
    /\ nftFile = [n \in Nodes |-> [g \in AllGameIds |-> <<>>]]
    /\ signerCalls = [n \in Nodes |-> 0]
    /\ \E w \in BOOLEAN : host = [HostIdle EXCEPT !.stateWritable = w]
    /\ inputs \in UNION {[1..k -> {[u |-> 0, action |-> "player_action", gameId |-> "g1",
                                     text |-> "go"]}] : k \in 1..MaxInputs}
    /\ InitJury(LocalNodes)
    /\ ctx = [readonly |-> FALSE, unl |-> 1]
    /\ daemon = [n \in Nodes |-> "ready"]
    /\ \E v \in DaemonStatuses : validator = [n \in Nodes |-> v]

\* The node of SpecSolo on a machine whose State files may refuse writes.
SpecUnwritable == InitUnwritable /\ [][NextSolo]_vars

InitInfer == InitQuiet /\ host = HostIdle

NextInfer ==
    \/ \E t \in Threads : Accept(t)
    \/ \E t \in Threads : ResetConversation(t)
    \/ \E t \in Threads : InitialMode(t)
    \/ \E t \in Threads : Seed(t)
    \/ \E t \in Threads : ContinueMode(t)
    \/ \E t \in Threads : Generate(t)

\* The game daemon with its model loaded: clients connect at any time, each
\* connection is handled on a thread of its own.
SpecInfer == InitInfer /\ [][NextInfer]_vars

\* a client connects while no other handler thread is at work
AcceptAlone(t) ==
    /\ \A u \in Threads \ {t} : host.ai.threads[u].pc \in {"idle", "replied"}
    /\ Accept(t)

NextInferSeq ==
    \/ \E t \in Threads : AcceptAlone(t)
    \/ \E t \in Threads : ResetConversation(t)
    \/ \E t \in Threads : InitialMode(t)
    \/ \E t \in Threads : Seed(t)
    \/ \E t \in Threads : ContinueMode(t)
    \/ \E t \in Threads : Generate(t)

\* The same daemon when its clients connect one after the other, each after
\* the answer to the one before.
SpecInferSeq == InitInfer /\ [][NextInferSeq]_vars

\* ------------------------------------------------- the jury contract
\* ctx->users: the users with inputs in the round
Users == {0, 1}

\* main: the loop variable input_idx at the k-th input of the round; it starts
\* at 0 for every user
InputIdx(ins, k) == Cardinality({j \in 1..(k - 1) : ins[j].u = ins[k].u})

\* a round of "validate" queries; main takes the users in index order
QueryInputs == [u : Users, action : {"validate"}, gameId : {""}, text : {"claim"}]
QueryInputSeqs ==
    {s \in UNION {[1..k -> QueryInputs] : k \in 1..MaxInputs} :
        \A j \in 1..(Len(s) - 1) : s[j].u <= s[j + 1].u}

\* jury contract, main and process_jury_message up to the wait: the query is
\* registered under request_idx = input_idx and the node's vote is broadcast
ProcessJuryMessage(n, to) ==
    /\ pc[n] = "inputs"
    /\ cur[n] <= Len(inputs)
    /\ IF ctx.readonly
       THEN /\ replies' = [replies EXCEPT ![n] =
                              Append(@, DirectReply("info", "Contract in readonly mode", "", Empty))]
            /\ cur' = [cur EXCEPT ![n] = @ + 1]
            /\ UNCHANGED <<npl, activeRequests, pc>>
       ELSE \E answer \in ValidatorAnswers :
               LET request_idx == InputIdx(inputs, cur[n])
                   decision == MakeDecision(validator[n], answer)
                   vote == [requestId |-> request_idx, isValid |-> decision.isValid,
                            confidence |-> decision.confidence, juryId |-> juryId[n]]
                   state == [requestId |-> request_idx, resolved |-> FALSE, received |-> 0,
                             tally |-> [k \in {0, 1} |-> 0],
                             confidenceSum |-> [k \in {0, 1} |-> 0]]
               IN /\ npl' = Broadcast(npl, to, VoteToJson(vote))
                  /\ activeRequests' = [activeRequests EXCEPT ![n] = Append(@, state)]
                  /\ pc' = [pc EXCEPT ![n] = "waiting"]
                  /\ UNCHANGED <<replies, cur>>
    /\ UNCHANGED <<stateFile, worldFile, inputs, juryId, handlers, sent, voteLog, ratified,
                   ctx, daemon, validator, nftFile, signerCalls, host>>

\* jury contract, waitForJuryConsensus: one turn of the loop.  The loop is left
\* when isConsensusReached(request_idx) holds, else one NPL message, if there
\* is one, goes to process_jury_vote.
JuryWaitTurn(n) ==
    /\ pc[n] = "waiting"
    /\ IF IsConsensusReached(activeRequests[n], InputIdx(inputs, cur[n]))
       THEN /\ pc' = [pc EXCEPT ![n] = "inputs"]
            /\ cur' = [cur EXCEPT ![n] = @ + 1]
            /\ UNCHANGED <<npl, activeRequests, stateFile, replies, voteLog, ratified,
                           nftFile>>
       ELSE /\ \E msg \in BagToSet(npl[n]) :
                  /\ npl' = [npl EXCEPT ![n] = @ (-) SetToBag({msg})]
                  /\ \E vote \in FromJson(msg) : ProcessVote(n, vote, msg)
            /\ UNCHANGED <<pc, cur>>
    /\ UNCHANGED <<worldFile, inputs, juryId, handlers, sent, ctx, daemon, validator,
                   signerCalls, host>>

\* jury contract, main: the inputs are done, the process returns
JuryMainReturns(n) ==
    /\ pc[n] = "inputs"
    /\ cur[n] > Len(inputs)
    /\ pc' = [pc EXCEPT ![n] = "ended"]
    /\ UNCHANGED <<stateFile, worldFile, inputs, cur, juryId, activeRequests, handlers,
                   npl, replies, sent, voteLog, ratified, ctx, daemon, validator,
                   nftFile, signerCalls, host>>

InitQueries == InitFiles /\ inputs \in QueryInputSeqs /\ InitJury(LocalNodes) /\ InitDaemons

NextQueries ==
    \/ \E n \in LocalNodes : ProcessJuryMessage(n, LocalNodes)
    \/ \E n \in LocalNodes : JuryWaitTurn(n)
    \/ \E n \in LocalNodes : JuryMainReturns(n)
    \/ \E n \in LocalNodes : PeerSends(n)

\* One replica of the jury contract in full over a round of queries from up to
\* two users; its peers are the environment.
SpecQueries == InitQueries /\ [][NextQueries]_vars

\* ------------------------------------------------------------ the claims
RECURSIVE BagCount(_, _)
\* how many elements of bag B, copies counted, are in the set S
BagCount(B, S) ==
    IF S = {} THEN 0
    ELSE LET e == CHOOSE x \in S : TRUE IN CopiesIn(e, B) + BagCount(B, S \ {e})

\* the votes node n has tallied for request r
TalliedFor(n, r) == {e \in BagToSet(voteLog[n]) : e.requestId = r}
NumTallied(n, r) == BagCount(voteLog[n], TalliedFor(n, r))
NumTalliedValid(n, r) == BagCount(voteLog[n], {e \in TalliedFor(n, r) : e.isValid})
NumTalliedInvalid(n, r) == BagCount(voteLog[n], {e \in TalliedFor(n, r) : ~e.isValid})

\* the consensus replies node n has written for request r, oldest first
RepliesFor(n, r) == SelectSeq(replies[n], LAMBDA x : x.requestId = r)
LatestReply(n, r) == RepliesFor(n, r)[Len(RepliesFor(n, r))]

AllResolved(n) ==
    /\ Len(activeRequests[n]) = Len(inputs)
    /\ \A i \in DOMAIN activeRequests[n] : activeRequests[n][i].resolved

\* C1: after a round in which every node has resolved the round's player_action,
\* all nodes hold the same State files.
NodesConverge ==
    (\A n \in Nodes : pc[n] = "ended" /\ AllResolved(n))
        => \A a, b \in Nodes : stateFile[a] = stateFile[b]

\* C2, as claimed: at the end of a round that resolved all its requests, the State
\* file of a game with a player_action that resolved INVALID is the State file of
\* the start of the round.
InvalidRestoresRoundStart ==
    \A n \in Nodes : (pc[n] = "ended" /\ AllResolved(n)) =>
        \A k \in DOMAIN replies[n] :
            LET i == FindHandler(handlers[n], replies[n][k].requestId) IN
            (i # 0 /\ replies[n][k].decision = "invalid")
                => stateFile[n][handlers[n][i].gameId] = RoundStartFiles[handlers[n][i].gameId]

\* C2, amended: when a player_action whose new state was saved tentatively is
\* resolved INVALID, the State file right after the resolution is the old state
\* that request loaded.
InvalidRevertsToOld ==
    [][\A n \in Nodes :
          Len(replies'[n]) = Len(replies[n]) + 1 =>
              LET rep == replies'[n][Len(replies'[n])]
                  i == FindHandler(handlers[n], rep.requestId)
              IN (i # 0 /\ rep.decision = "invalid" /\ handlers[n][i].saved)
                    => stateFile'[n][handlers[n][i].gameId] = handlers[n][i].oldGameState]_vars

\* C2 witness: a tentatively saved new state, different from the old one, was
\* resolved INVALID.
InvalidRevertWitness ==
    \E n \in Nodes : \E k \in DOMAIN replies[n] :
        LET i == FindHandler(handlers[n], replies[n][k].requestId) IN
        /\ i # 0
        /\ replies[n][k].decision = "invalid"
        /\ handlers[n][i].saved
        /\ handlers[n][i].newGameState # handlers[n][i].oldGameState
        /\ stateFile[n][handlers[n][i].gameId] = handlers[n][i].oldGameState

\* C3: at a round boundary, also of a round the host ended during the wait for
\* consensus, every State file holds the last ratified state, never a tentative one.
OnlyRatifiedOnDisk ==
    \A n \in Nodes : pc[n] = "ended" => stateFile[n] = ratified[n]

\* C4: a vote with a given (juryId, requestId) is counted at most once: received
\* never exceeds the number of distinct juries whose vote was tallied.
VoteAcceptedOnce ==
    \A n \in Nodes : \A i \in DOMAIN activeRequests[n] :
        activeRequests[n][i].received
            <= Cardinality({e.juryId : e \in TalliedFor(n, activeRequests[n][i].requestId)})

\* C5: once a request is resolved no further vote is counted for it and the
\* user-response callback is not invoked again.
ResolvedIgnoresVotes ==
    \A n \in Nodes : \A i \in DOMAIN activeRequests[n] :
        /\ activeRequests[n][i].received <= PeerCount
        /\ Len(RepliesFor(n, activeRequests[n][i].requestId)) <= 1

\* C6: a request is resolved, and its consensus dispatched, only when at least
\* peerCount votes have been counted for it.
ResolvedOnlyAtPeerCount ==
    \A n \in Nodes : \A i \in DOMAIN activeRequests[n] :
        LET r == activeRequests[n][i].requestId IN
        (activeRequests[n][i].resolved \/ RepliesFor(n, r) # <<>>)
            => NumTallied(n, r) >= PeerCount

\* C6 witness: a request is resolved with exactly peerCount votes counted.
ResolvedAtPeerCountWitness ==
    \E n \in Nodes : \E i \in DOMAIN activeRequests[n] :
        /\ activeRequests[n][i].resolved
        /\ NumTallied(n, activeRequests[n][i].requestId) = PeerCount

\* C7: every consensus decision is valid exactly when the valid votes outnumber
\* the invalid ones; a tie is INVALID.
MajorityIsStrict ==
    \A n \in Nodes :
        /\ \A k \in DOMAIN replies[n] :
              (replies[n][k].decision = "valid")
                  <=> (replies[n][k].validVotes > replies[n][k].invalidVotes)
        /\ \A i \in DOMAIN activeRequests[n] :
              activeRequests[n][i].resolved =>
                  ((LatestReply(n, activeRequests[n][i].requestId).decision = "valid")
                      <=> (activeRequests[n][i].tally[1] > activeRequests[n][i].tally[0]))

\* C7 witness: a request resolved on a tie, as INVALID.
TieWitness ==
    \E n \in Nodes : \E k \in DOMAIN replies[n] :
        /\ replies[n][k].validVotes = replies[n][k].invalidVotes
        /\ replies[n][k].validVotes > 0
        /\ replies[n][k].decision = "invalid"

\* C8: the decision of a request is the same for every order of the votes counted
\* for it: every decision dispatched for it is the one the bag of those votes
\* gives, valid exactly when the bag holds more valid than invalid votes.
DecisionIsOrderFree ==
    \A n \in Nodes : \A k \in DOMAIN replies[n] :
        LET r == replies[n][k].requestId IN
        (replies[n][k].decision = "valid")
            <=> (NumTalliedValid(n, r) > NumTalliedInvalid(n, r))

\* C9: an NPL message that is no well-formed vote changes no tally: every vote
\* counted came from a well-formed Vote message.
MalformedIgnored ==
    \A n \in Nodes : \A e \in BagToSet(voteLog[n]) : e.wellFormed

\* C10: at the end of the round, a player_action whose daemon output was saved as
\* the new state and that resolved VALID has replied success with that output, and
\* the State file holds it (unless a later action of the round on the same game
\* saved its own output).
ValidKeepsDaemonOutput ==
    \A n \in Nodes : pc[n] = "ended" =>
        \A k \in DOMAIN replies[n] :
            LET i == FindHandler(handlers[n], replies[n][k].requestId) IN
            (i # 0 /\ replies[n][k].decision = "valid" /\ handlers[n][i].saved)
                => /\ replies[n][k].action_result = "success"
                   /\ replies[n][k].game_state = handlers[n][i].newGameState
                   /\ (\A j \in DOMAIN handlers[n] :
                          j > i => handlers[n][j].gameId # handlers[n][i].gameId)
                        => stateFile[n][handlers[n][i].gameId] = handlers[n][i].newGameState


\* every request the jury has registered on node n is resolved
JuryDone(n) == \A i \in DOMAIN activeRequests[n] : activeRequests[n][i].resolved

\* all six header lines stand in the text
HasAllHeaders(text) ==
    \A name \in HeaderNames : \E i \in DOMAIN text : text[i] # <<>> /\ text[i][1] = name

\* C11: a state that a VALID resolution has committed holds all six header lines
\* (Player_Location, Player_Health, Player_Score, Player_Inventory, Game_Status,
\* Turn_Count); a new state without them ends INVALID with the old state on disk.
CommittedHasHeaders ==
    \A n \in LocalNodes :
        /\ \A g \in AllGameIds : ratified[n][g] # Empty => HasAllHeaders(ratified[n][g])
        /\ \A k \in DOMAIN replies[n] :
              replies[n][k].action_result = "success" => HasAllHeaders(replies[n][k].game_state)

\* the answers of the model that lack a player-state marker
UnmarkedResponses ==
    {r \in AiResponses \cup WinResponses :
        ~(\E i \in DOMAIN r : r[i] = BeginMarker) \/ ~(\E i \in DOMAIN r : r[i] = EndMarker)}

\* C12: a daemon output without the <<BEGIN_PLAYER_STATE>> / <<END_PLAYER_STATE>>
\* markers is never the new state of an action that ended VALID, and once the
\* jury is done it is not the State file of any game.
UnmarkedOutputRejected ==
    \A n \in LocalNodes :
        /\ \A k \in DOMAIN replies[n] :
              replies[n][k].action_result = "success"
                  => replies[n][k].game_state \notin UnmarkedResponses
        /\ (pc[n] = "ended" /\ JuryDone(n))
              => \A g \in AllGameIds : stateFile[n][g] \notin UnmarkedResponses

\* the error text of a reply, "" for a reply that is no error
ReplyError(rep) == IF "error" \in DOMAIN rep THEN rep.error ELSE ""

\* main is about to hand a message with this action to process_game_message
AboutToHandle(n, action) ==
    pc[n] = "inputs" /\ cur[n] <= Len(inputs) /\ inputs[cur[n]].action = action

\* C13: when the game daemon's ping reports loading, handling a player_action
\* writes the one reply "AI model still loading ..." and changes no State, World
\* or NFT file; nothing goes to the jury.
LoadingRefusesAction ==
    [][\A n \in LocalNodes :
          (daemon[n] = "loading" /\ AboutToHandle(n, "player_action")
              /\ <<pc[n], cur[n]>>' # <<pc[n], cur[n]>>)
          => /\ replies'[n] = Append(replies[n], DirectReply("error", ErrModelLoading, "", Empty))
             /\ pc'[n] = "inputs"
             /\ UNCHANGED <<stateFile, worldFile, nftFile, npl, handlers>>]_vars

\* a player_action was answered with the loading error while the daemon loads
LoadingRefusedWitness ==
    \E n \in LocalNodes :
        /\ daemon[n] = "loading"
        /\ cur[n] > 1
        /\ inputs[1].action = "player_action"
        /\ ReplyError(replies[n][1]) = ErrModelLoading
        /\ stateFile[n] \in {RoundStartFiles, WonFiles}

\* C14: in a read-only round no step creates or changes a World or State file and
\* no step puts a message on the NPL channel.
ReadOnlyRoundWritesNothing ==
    [][ctx.readonly =>
          /\ stateFile' = stateFile
          /\ worldFile' = worldFile
          /\ \A n \in Nodes : npl'[n] \sqsubseteq npl[n]]_vars

\* C15: the signing service is called for a mint only in a read-only round, and
\* a mint_nft handled in a consensus round gets an error reply, calls no signer
\* and leaves the NFT records alone.
MintOnlyReadOnly ==
    [][\A n \in LocalNodes :
          /\ signerCalls'[n] # signerCalls[n] => ctx.readonly
          /\ (~ctx.readonly /\ AboutToHandle(n, "mint_nft")
                 /\ <<pc[n], cur[n]>>' # <<pc[n], cur[n]>>)
             => /\ Len(replies'[n]) = Len(replies[n]) + 1
                /\ replies'[n][Len(replies'[n])].type = "error"
                /\ UNCHANGED <<signerCalls, nftFile>>]_vars

\* a mint_nft for a won game with items was refused in a consensus round
MintRefusedWitness ==
    \E n \in LocalNodes :
        /\ ~ctx.readonly
        /\ cur[n] > 1
        /\ inputs[1].action = "mint_nft"
        /\ nftFile[n][inputs[1].gameId] # <<>>
        /\ ReplyError(replies[n][1]) = ErrMintDisabled
        /\ signerCalls[n] = 0

\* the signing service was called in a read-only round
MintedReadOnlyWitness == \E n \in LocalNodes : ctx.readonly /\ signerCalls[n] > 0

\* the value a State text gives for a header: the rest of that header's line
HeaderValue(text, name) ==
    LET ls == {i \in DOMAIN text : text[i] # <<>> /\ text[i][1] = name} IN
    IF ls = {} THEN <<>> ELSE Tail(text[CHOOSE i \in ls : \A k \in ls : i <= k])

\* the State of game g on node n carries Game_Status won and is the new state
\* of a request of this round that was resolved VALID
WonCommitted(n, g) ==
    /\ HeaderValue(stateFile[n][g], "Game_Status:") = <<"won">>
    /\ \E k \in DOMAIN replies[n] :
          /\ replies[n][k].game_id = g
          /\ replies[n][k].action_result = "success"
          /\ replies[n][k].game_state = stateFile[n][g]

\* C16: at the end of a round whose requests are all resolved, every game whose
\* State with Game_Status won was committed in the round has an NFT record whose
\* final_location, final_health, final_score and player_inventory are the values
\* of that State.
WonStateHasMatchingNft ==
    \A n \in LocalNodes : (pc[n] = "ended" /\ JuryDone(n)) =>
        \A g \in AllGameIds : WonCommitted(n, g) =>
            /\ nftFile[n][g] # <<>>
            /\ nftFile[n][g][1].final_location = HeaderValue(stateFile[n][g], "Player_Location:")
            /\ nftFile[n][g][1].final_health = HeaderValue(stateFile[n][g], "Player_Health:")
            /\ nftFile[n][g][1].final_score = HeaderValue(stateFile[n][g], "Player_Score:")
            /\ nftFile[n][g][1].player_inventory =
                   HeaderValue(stateFile[n][g], "Player_Inventory:")

\* C17: at the end of a round whose requests are all resolved, a game that has
\* an NFT record and a State of all six headers has Game_Status won in it.
NftOnlyForWonGame ==
    \A n \in LocalNodes : (pc[n] = "ended" /\ JuryDone(n)) =>
        \A g \in AllGameIds :
            (nftFile[n][g] # <<>> /\ HasAllHeaders(stateFile[n][g]))
                => HeaderValue(stateFile[n][g], "Game_Status:") = <<"won">>

\* C18: a World file that exists is never changed by any step: not by another
\* create_game, a player_action, a revert or a mint_nft.
WorldNeverRewritten ==
    [][\A n \in Nodes : \A g \in AllGameIds :
          worldFile[n][g] # Empty => worldFile'[n][g] = worldFile[n][g]]_vars

\* a game was created in this round and another create_game with the same
\* prompt was handled after it
SecondCreateWitness ==
    \E n \in LocalNodes :
        /\ worldFile[n][GameIdText(2, Hash("cave"))] # Empty
        /\ worldFile[n][GameIdText(3, Hash("cave"))] # Empty
        /\ worldFile[n]["g1"] = World1

\* the vote node n broadcast for request r is readable on its NPL channel
OwnVoteReadable(n, r) ==
    \E m \in BagToSet(npl[n]) :
        IsWellFormedVote(m) /\ m.fields.requestId = r /\ m.fields.juryId = juryId[n]

\* C19: with a peer count of 1 a request is resolved by the first vote counted
\* for it, and while the node waits for a request that has no vote yet, its own
\* vote is there to be read: no other node's vote is needed.
SingleVoteResolves ==
    \A n \in LocalNodes : ctx.unl <= 1 =>
        \A i \in DOMAIN activeRequests[n] :
            LET a == activeRequests[n][i] IN
            IF a.received = 0
            THEN ~a.resolved /\ (pc[n] = "waiting" => OwnVoteReadable(n, a.requestId))
            ELSE a.resolved /\ RepliesFor(n, a.requestId) # <<>>

\* a request was resolved by the node's own vote alone
SingleVoteWitness ==
    \E n \in LocalNodes :
        /\ ctx.unl = 1
        /\ sent = 0
        /\ activeRequests[n] # <<>>
        /\ activeRequests[n][1].resolved
        /\ activeRequests[n][1].received = 1
        /\ \A e \in BagToSet(voteLog[n]) : e.juryId = juryId[n]
        /\ Len(RepliesFor(n, activeRequests[n][1].requestId)) = 1

\* C20: while the validator daemon is down or loading, every vote the node has
\* put on the NPL channel is valid with confidence 0.1 (1 in tenths), and so is
\* every vote behind a reply of a round in which all votes are its own.
FallbackVoteIsValid ==
    \A n \in LocalNodes : validator[n] # "ready" =>
        /\ \A m \in BagToSet(npl[n]) :
              (IsWellFormedVote(m) /\ m.fields.juryId = juryId[n])
                  => (m.fields.isValid = TRUE /\ m.fields.confidence = 1)
        /\ sent = 0 =>
              \A k \in DOMAIN replies[n] :
                  replies[n][k].requestId >= 0
                      => /\ replies[n][k].validVotes = replies[n][k].totalVotes
                         /\ replies[n][k].confidenceSum = replies[n][k].totalVotes

\* a vote cast without a validator was broadcast and resolved its request
FallbackVoteWitness ==
    \E n \in LocalNodes :
        /\ validator[n] \in {"down", "loading"}
        /\ replies[n] # <<>>
        /\ replies[n][1].requestId >= 0
        /\ replies[n][1].decision = "valid"
        /\ replies[n][1].totalVotes = 1
        /\ replies[n][1].confidenceSum = 1

\* C21: a step that registers a request with the jury puts exactly one message
\* on the NPL channel, the well-formed vote of this node for that request, and
\* no other step of the node puts anything there.
BroadcastsVoteOnce ==
    [][\A n \in LocalNodes :
          IF Len(activeRequests'[n]) = Len(activeRequests[n]) + 1
          THEN LET r == activeRequests'[n][Len(activeRequests'[n])].requestId
                   vote == [requestId |-> r, isValid |-> TRUE, confidence |-> 0,
                            juryId |-> juryId[n]]
               IN \E b \in BOOLEAN, c \in {d.confidence : d \in Decisions} :
                     npl'[n] = npl[n] (+)
                         SetToBag({VoteToJson([vote EXCEPT !.isValid = b, !.confidence = c])})
          ELSE sent' = sent => npl'[n] \sqsubseteq npl[n]]_vars

\* a request is registered and the one vote broadcast for it waits to be read
OneVoteBroadcastWitness ==
    \E n \in LocalNodes :
        /\ pc[n] = "waiting"
        /\ Len(activeRequests[n]) = 1
        /\ activeRequests[n][1].received = 0
        /\ BagCardinality(npl[n]) = 1
        /\ OwnVoteReadable(n, activeRequests[n][1].requestId)

\* C22: whenever a wait for consensus returns to the input loop, the request it
\* waited for is resolved.
WaitReturnsResolved ==
    [][\A n \in LocalNodes :
          (pc[n] = "waiting" /\ pc'[n] = "inputs")
              => IsConsensusReached(activeRequests[n],
                                    ActionIdx(inputs[cur[n]].u, cur[n] - 1))]_vars

\* the running daemon processes of a role
AliveIn(h, r) == {p \in Pids : h.proc[r][p] \in Running}

\* At most one daemon of a role is ever running on the machine.
AtMostOneDaemon == \A r \in Roles : Cardinality(AliveIn(host, r)) <= 1

\* C23: over consecutive rounds, whatever crashes in between, at most one
\* daemon process of each role is running on the node, and when a
\* supervisor's startDaemon returns true exactly one is.
OneDaemonPerRole ==
    [][\A r \in Roles :
          /\ Cardinality(AliveIn(host', r)) <= 1
          /\ (host.result[r] = "none" /\ host'.result[r] = "true")
                => Cardinality(AliveIn(host', r)) = 1]_vars

PingsWhileLoading ==
    \A r \in Roles :
       /\ (host.ping[r].phase \in {"listening", "loading", "failing"})
             => host.ping[r].status = "loading"
       /\ host.ping[r].status = "ready" => ModelLoaded(host.ping[r].phase)

PingBeforeLoaderWitness ==
    \E r \in Roles : host.ping[r].phase = "listening" /\ host.ping[r].status = "loading"

SizeOk(f) == FileSize(f) = ExpectedSize
HashOk(f) == CalculateSHA256(f) = ExpectedHash

\* C26: when the provisioner reports the model ready, and main starts the
\* game daemon on it, the file on disk has the expected size and the
\* expected SHA-256.
ReadyOnlyWhenVerified ==
    [][(host.modelReady = "none" /\ host'.modelReady = "true")
          => SizeOk(host'.model) /\ HashOk(host'.model)]_vars

\* the contract's downloader issues at most one GET in an invocation
ContractOneGet == host.gets["contract"] <= 1

\* C27: no invocation of a model downloader issues more than one ranged GET.
OneGetPerInvocation == \A d \in Downloaders : host.gets[d] <= 1

\* the game_id of the gameCreated reply node n has sent, "" when there is none
CreatedId(n) ==
    IF \E i \in DOMAIN replies[n] : replies[n][i].type = "gameCreated"
    THEN replies[n][CHOOSE i \in DOMAIN replies[n] : replies[n][i].type = "gameCreated"].game_id
    ELSE ""

VotesDelivered(n, r) ==
    /\ \A m \in Nodes : FindRequest(activeRequests[m], r) # 0
    /\ ~\E msg \in BagToSet(npl[n]) : IsWellFormedVote(msg) /\ msg.fields.requestId = r

\* C29: once every node has broadcast its vote for a request and all of these
\* votes have been delivered to a node, that node resolves the request and
\* its wait for it returns, also when one of the votes was delivered before
\* the node had registered the request.
DeliveredVotesResolve ==
    \A n \in Nodes : \A i \in 1..MaxInputs :
        VotesDelivered(n, ActionIdx(0, i - 1))
           ~> (IsConsensusReached(activeRequests[n], ActionIdx(0, i - 1)) /\ cur[n] > i)

\* the decisions node n has dispatched for request r
DecisionsOf(n, r) ==
    {replies[n][i].decision : i \in {k \in DOMAIN replies[n] : replies[n][k].requestId = r}}

\* C30: the decisions that honest nodes dispatch for one request are all the
\* same, in whatever order and however often NPL delivers the votes to each.
SameDecisionOnAllNodes ==
    \A n, m \in Nodes : \A r \in RequestIds :
        \A d \in DecisionsOf(n, r) : \A e \in DecisionsOf(m, r) : d = e

\* the votes node n has tallied for request r that peer p sent
TalliedFrom(n, r, p) == {e \in TalliedFor(n, r) : e.sender = p}

\* C31: the tally of a request holds at most one vote per peer node: however
\* many Vote messages a peer sends for the request, and under whatever juryIds,
\* at most one of them is counted.
OneVotePerPeer ==
    \A n \in LocalNodes : \A p \in Nodes \ LocalNodes : \A r \in RequestIds :
        BagCount(voteLog[n], TalliedFrom(n, r, p)) <= 1

\* C32: within a round, no two requests registered with the jury have the same
\* requestId, whichever users and inputs they came from.
RequestIdsDistinct ==
    \A n \in LocalNodes : \A i, j \in DOMAIN activeRequests[n] :
        i # j => activeRequests[n][i].requestId # activeRequests[n][j].requestId

\* the daemon outputs that are empty or hold an error keyword in any case
FailedOutputs == {Empty, OutFailed}

\* node n has put its own vote for request r on NPL
VoteCastFor(n, r) ==
    \/ \E m \in BagToSet(npl[n]) :
          /\ IsWellFormedVote(m)
          /\ m.fields.requestId = r /\ m.fields.juryId = juryId[n]
    \/ \E e \in TalliedFor(n, r) : e.juryId = juryId[n]

\* handler i of node n is the last of the round for its game
LastOnGame(n, i) ==
    \A j \in DOMAIN handlers[n] : j > i => handlers[n][j].gameId # handlers[n][i].gameId

WriteFailed(h) == ~h.saved /\ h.newGameState # h.oldGameState

\* C34: a player_action whose write of the new state failed is answered as a
\* failed action, and the State file holds the old state.
WriteFailureSurfaced ==
    \A n \in LocalNodes : \A i \in DOMAIN handlers[n] :
        LET h == handlers[n][i] IN
        WriteFailed(h) =>
            /\ \A k \in DOMAIN replies[n] :
                  replies[n][k].requestId = h.action_idx
                      => replies[n][k].action_result = "failed"
            /\ stateFile[n][h.gameId] = h.oldGameState

\* C35: whenever a role's PID file names a pid, that process is alive and
\* holds the role's server socket.
PidFileNamesServer ==
    \A r \in Roles : host.pidFile[r] # 0 => host.pidFile[r] \in Serving(host, r)

\* C36: a continuation-mode player_action whose persistent context is absent
\* or whose decoding fails is answered by initial-mode generation.
ContinuationFallsBack ==
    \A t \in Threads :
        LET th == host.ai.threads[t] IN
        (th.pc = "replied" /\ th.asked /\ th.failure # "none") => th.via = "initial"

\* the handler threads that are at work on the persistent context
InContext == {t \in Threads : host.ai.threads[t].pc \in {"seeding", "generating"}}

\* C37: at most one handler thread at a time is at work on the persistent
\* inference context.
OneThreadInContext == Cardinality(InContext) <= 1

\* C38: a continuation is generated from a persistent context that was seeded
\* with the prompt of the request's own game.
ContinuationUsesOwnGame ==
    \A t \in Threads :
        LET th == host.ai.threads[t] IN
        (th.pc = "generating" \/ (th.pc = "replied" /\ th.via = "continuation"))
            => th.seedUsed = th.req.game

\* the replies of node n to mint_nft requests for game g, oldest first
MintRepliesFor(n, g) ==
    SelectSeq(replies[n], LAMBDA x : x.type = "nft_mint_result" /\ x.game_id = g)

\* C39: once a mint_nft request for a game has succeeded, the game's NFT
\* record has status minted, and every later mint_nft request for the game is
\* answered already_minted, without another call of the signing service.
MintedOnlyOnce ==
    \A n \in LocalNodes : \A g \in AllGameIds :
        LET mints == MintRepliesFor(n, g) IN
        \A k \in DOMAIN mints :
            mints[k].action_result = "minted" =>
                /\ nftFile[n][g] # <<>>
                /\ nftFile[n][g][1].status = "minted"
                /\ \A j \in DOMAIN mints : j > k => mints[j].action_result = "already_minted"

\* a round in which the provisioner is run and does not report the model complete
RoundNotComplete == host.modelReady = "none" /\ host'.modelReady = "false"

\* C40: from any model file left on disk (absent, partial or left over from an
\* earlier attempt), while every chunk request succeeds, the provisioner
\* reports the model complete after finitely many rounds, and every round
\* before that strictly increases the size of the file.
ProvisionCompletes ==
    /\ <>(host.modelReady = "true")
    /\ [][RoundNotComplete => FileSize(host'.model) > FileSize(host.model)]_vars

====
